---- MODULE Spec2Model ----
(***************************************************************************)
(* State-machine model of InMemoryApiCache (lib/cache.ts): the bounded,    *)
(* in-process cache with TTL expiry, LRU eviction, key sanitization,       *)
(* value validation and memory accounting.                                 *)
(*                                                                         *)
(* Strings are sequences of one-character strings, so that the key         *)
(* sanitizer is computed character by character as the code does.          *)
(* Every public method is synchronous JavaScript, so one call is one       *)
(* action.  A thrown Error is modelled by its message ("" = none).        *)
(***************************************************************************)
EXTENDS Integers, Sequences, FiniteSets, TLC

(***************************************************************************)
(* Bounds of the model (not program constants).                            *)
(***************************************************************************)
MaxTicks == 1         \* number of times the clock read by Date.now() advances
MaxAccesses == 1      \* get() with a valid key is explored while totalAccesses < MaxAccesses

(***************************************************************************)
(* Program constants.                                                      *)
(***************************************************************************)
MaxRawKeyLength == 1000
MaxSanitizedKeyLength == 200
MinHashLength == 32
MaxTtlMs == 86400000
MaxValueBytes == 10 * 1024 * 1024

(***************************************************************************)
(* String helpers: the JavaScript String methods the sanitizer uses.       *)
(***************************************************************************)
\* String.prototype.indexOf(c): 0-based index of the first c, -1 when absent
IndexOf(s, c) ==
    IF \E i \in 1..Len(s) : s[i] = c
    THEN (CHOOSE i \in 1..Len(s) : s[i] = c /\ \A j \in 1..(i - 1) : s[j] # c) - 1
    ELSE -1

\* String.prototype.includes(c) for a one-character needle
Includes(s, c) == \E i \in 1..Len(s) : s[i] = c

\* String.prototype.substring(from, to) with 0-based from and exclusive to
Substring(s, from, to) ==
    LET f == IF from < 0 THEN 0 ELSE IF from > Len(s) THEN Len(s) ELSE from
        t == IF to < 0 THEN 0 ELSE IF to > Len(s) THEN Len(s) ELSE to
        lo == IF f < t THEN f ELSE t
        hi == IF f < t THEN t ELSE f
    IN  SubSeq(s, lo + 1, hi)

StartsWith(s, c) == Len(s) > 0 /\ s[1] = c
EndsWith(s, c) == Len(s) > 0 /\ s[Len(s)] = c

\* String.prototype.split(' '): always at least one part, empty parts kept
RECURSIVE SplitSpace(_)
SplitSpace(s) ==
    LET i == IndexOf(s, " ")
    IN  IF i = -1 THEN << s >>
        ELSE << SubSeq(s, 1, i) >> \o SplitSpace(SubSeq(s, i + 2, Len(s)))

\* Array.prototype.join(' ')
RECURSIVE JoinSpace(_)
JoinSpace(parts) ==
    IF Len(parts) = 0 THEN << >>
    ELSE IF Len(parts) = 1 THEN parts[1]
    ELSE parts[1] \o << " " >> \o JoinSpace(Tail(parts))

Digits == {"0", "1", "2", "3", "4", "5", "6", "7", "8", "9"}
HexLower == {"a", "b", "c", "d", "e", "f"}
HexUpper == {"A", "B", "C", "D", "E", "F"}

DigitValue(c) ==
    CASE c = "0" -> 0 [] c = "1" -> 1 [] c = "2" -> 2 [] c = "3" -> 3
      [] c = "4" -> 4 [] c = "5" -> 5 [] c = "6" -> 6 [] c = "7" -> 7
      [] c = "8" -> 8 [] c = "9" -> 9

DigitChar(d) ==
    CASE d = 0 -> "0" [] d = 1 -> "1" [] d = 2 -> "2" [] d = 3 -> "3"
      [] d = 4 -> "4" [] d = 5 -> "5" [] d = 6 -> "6" [] d = 7 -> "7"
      [] d = 8 -> "8" [] d = 9 -> "9"

\* number of leading decimal digits of s
RECURSIVE LeadingDigits(_)
LeadingDigits(s) ==
    IF Len(s) > 0 /\ s[1] \in Digits THEN 1 + LeadingDigits(Tail(s)) ELSE 0

RECURSIVE DigitsToNat(_)
DigitsToNat(s) ==
    IF Len(s) = 0 THEN 0
    ELSE 10 * DigitsToNat(SubSeq(s, 1, Len(s) - 1)) + DigitValue(s[Len(s)])

\* the white space parseInt skips (StrWhiteSpaceChar): space, tab, line
\* feed, carriage return, form feed, then, written as the characters
\* themselves, U+000B, U+00A0, U+FEFF and U+1680.  The remaining space
\* separators (U+2000..U+200A, U+202F, U+205F, U+3000) and the line
\* terminators U+2028 and U+2029 are skipped by parseInt as well, but the
\* lexer of the language admits none of them in a string.
WhiteSpace ==
    {" ", "\t", "\n", "\r", "\f",
     "", " ", "﻿", " "}

\* s without its leading white space
RECURSIVE TrimStart(_)
TrimStart(s) ==
    IF Len(s) > 0 /\ s[1] \in WhiteSpace THEN TrimStart(Tail(s)) ELSE s

\* s without its leading zeros
RECURSIVE StripZeros(_)
StripZeros(s) ==
    IF Len(s) > 0 /\ s[1] = "0" THEN StripZeros(Tail(s)) ELSE s

\* parseInt without sign: the longest run of leading digits of body is the
\* value, NaN when there is none.  A run of more than 9 digits after its
\* leading zeros is a number of at least 10^9, far above 255, whose decimal
\* rendering is not needed; it is reported as "huge".
ParseUnsigned(neg, body) ==
    LET significant == StripZeros(SubSeq(body, 1, LeadingDigits(body)))
    IN  IF LeadingDigits(body) = 0
        THEN [nan |-> TRUE, huge |-> FALSE, neg |-> FALSE, abs |-> 0]
        ELSE IF Len(significant) > 9
        THEN [nan |-> FALSE, huge |-> TRUE, neg |-> neg, abs |-> 0]
        ELSE [nan |-> FALSE, huge |-> FALSE, neg |-> neg,
              abs |-> DigitsToNat(significant)]

\* parseInt after the white space: an optional sign, then the digits
ParseTrimmed(trimmed) ==
    IF Len(trimmed) > 0 /\ trimmed[1] \in {"-", "+"}
    THEN ParseUnsigned(trimmed[1] = "-", Tail(trimmed))
    ELSE ParseUnsigned(FALSE, trimmed)

\* parseInt(part, 10): leading white space is skipped, then an optional sign,
\* then the longest run of digits is the value
parseInt(part) == ParseTrimmed(TrimStart(part))

\* Number.prototype.toString() of a non-negative integer
RECURSIVE NatToString(_)
NatToString(n) ==
    IF n < 10 THEN << DigitChar(n) >>
    ELSE NatToString(n \div 10) \o << DigitChar(n % 10) >>

(***************************************************************************)
(* Key sanitizer.                                                          *)
(***************************************************************************)
EmailPlaceholder == << "[", "e", "m", "a", "i", "l", "]" >>
IpPlaceholder == << "[", "i", "p", "]" >>
HashPlaceholder == << "[", "h", "a", "s", "h", "]" >>

replaceEmailLikePattern(part) ==
    LET atIndex == IndexOf(part, "@")
    IN  IF atIndex <= 0 \/ atIndex >= Len(part) - 1 THEN part
        ELSE LET afterAt == Substring(part, atIndex + 1, Len(part))
                 hasValidDomain == /\ Includes(afterAt, ".")
                                   /\ ~StartsWith(afterAt, ".")
                                   /\ ~EndsWith(afterAt, ".")
             IN  IF hasValidDomain THEN EmailPlaceholder ELSE part

sanitizeEmailPatterns(input) ==
    IF ~Includes(input, "@") THEN input
    ELSE LET parts == SplitSpace(input)
         IN  JoinSpace([i \in 1..Len(parts) |-> replaceEmailLikePattern(parts[i])])

\* String.prototype.split('.')
RECURSIVE SplitDot(_)
SplitDot(s) ==
    LET i == IndexOf(s, ".")
    IN  IF i = -1 THEN << s >>
        ELSE << SubSeq(s, 1, i) >> \o SplitDot(SubSeq(s, i + 2, Len(s)))

\* one octet: !isNaN(num) && num >= 0 && num <= 255 && part === num.toString()
\* (-0 is >= 0 and prints as "0", which differs from the part "-0")
IsOctet(part) ==
    LET num == parseInt(part)
    IN  /\ ~num.nan
        /\ ~num.huge
        /\ (~num.neg \/ num.abs = 0)
        /\ num.abs <= 255
        /\ part = NatToString(num.abs)

isIPv4Pattern(str) ==
    LET parts == SplitDot(str)
    IN  IF Len(parts) # 4 THEN FALSE
        ELSE \A i \in 1..4 : IsOctet(parts[i])

sanitizeIpPatterns(input) ==
    LET tokens == SplitSpace(input)
    IN  JoinSpace([i \in 1..Len(tokens) |->
                     IF isIPv4Pattern(tokens[i]) THEN IpPlaceholder ELSE tokens[i]])

isLongHexString(token) ==
    IF Len(token) < MinHashLength THEN FALSE
    ELSE \A i \in 1..Len(token) :
            token[i] \in Digits \/ token[i] \in HexLower \/ token[i] \in HexUpper

sanitizeHashPatterns(input) ==
    LET tokens == SplitSpace(input)
    IN  JoinSpace([i \in 1..Len(tokens) |->
                     IF isLongHexString(tokens[i]) THEN HashPlaceholder ELSE tokens[i]])

truncateToLimit(input) == Substring(input, 0, MaxSanitizedKeyLength)

sanitizeKey(key) ==
    truncateToLimit(sanitizeHashPatterns(sanitizeIpPatterns(sanitizeEmailPatterns(key))))

(***************************************************************************)
(* Inputs.  A raw key is any JavaScript value: kind "string" carries its   *)
(* characters in s; the other kinds are non-strings.  A value is           *)
(* abstracted to what the validator observes of it: whether it is          *)
(* undefined, contains a function, is circular, fails JSON.stringify       *)
(* otherwise, or serializes to `bytes` UTF-8 bytes; id names the value.    *)
(* A ttl argument is undefined, a finite number n, NaN, Infinity or a      *)
(* non-number.                                                             *)
(***************************************************************************)
Str(chars) == [kind |-> "string", s |-> chars]
NullKey == [kind |-> "null", s |-> << >>]
NumberKey == [kind |-> "number", s |-> << >>]
EmptyKey == Str(<< >>)
RECURSIVE Repeat(_, _)
Repeat(c, n) ==
    IF n = 0 THEN << >>
    ELSE IF n % 2 = 1 THEN Append(Repeat(c, n - 1), c)
    ELSE LET half == Repeat(c, n \div 2) IN half \o half
TooLongKey == Str(Repeat("k", MaxRawKeyLength + 1))

KeyA == Str(<< "a" >>)
KeyB == Str(<< "b" >>)
KeyMailU == Str(<< "u", "@", "x", ".", "y" >>)
KeyMailV == Str(<< "v", "@", "x", ".", "y" >>)
KeyC == Str(<< "c" >>)
KeyD == Str(<< "d" >>)

ValidRawKeys == {KeyA, KeyB, KeyMailU}
InvalidRawKeys == {NullKey, NumberKey, EmptyKey, TooLongKey}

\* createHash('sha256').update(input).digest('hex'): 64 hex characters fixed
\* by the input; the digest of an input named by one hex digit is written
\* as 64 copies of that digit
hashString(input) == Repeat(input, 64)

\* createContentHash(data): the digest of the normalized relevant fields,
\* data being named by the hex digit that stands for those fields
createContentHash(data) == hashString(data)

\* no clientIP argument
NoClientIP == ""

\* `duplicate:${compositeKey}`
DuplicateKey(data, clientIP) ==
    LET contentHash == createContentHash(data)
        compositeKey == IF clientIP # NoClientIP
                        THEN contentHash \o << ":" >> \o hashString(clientIP)
                        ELSE contentHash
    IN  Str(<< "d", "u", "p", "l", "i", "c", "a", "t", "e", ":" >> \o compositeKey)

\* the submissions checked: one lead with its client address, one without
Submissions == {<< "1", "c" >>, << "2", NoClientIP >>}
DuplicateKeys == {DuplicateKey(sub[1], sub[2]) : sub \in Submissions}

RawKeys == ValidRawKeys \cup InvalidRawKeys \cup {KeyMailV, KeyC, KeyD} \cup DuplicateKeys

ValUndefined == [kind |-> "undefined", id |-> "undefined", bytes |-> 0]
Val1 == [kind |-> "json", id |-> "v1", bytes |-> 2]
Val2 == [kind |-> "json", id |-> "v2", bytes |-> 5]
ValWide == [kind |-> "json", id |-> "wide", bytes |-> 10]
\* the value null: JSON.stringify gives "null"
ValNull == [kind |-> "json", id |-> "null", bytes |-> 4]
ValFunction == [kind |-> "function", id |-> "fn", bytes |-> 0]
ValCircular == [kind |-> "circular", id |-> "circ", bytes |-> 0]
ValBigInt == [kind |-> "unserializable", id |-> "bigint", bytes |-> 0]
ValTooLarge == [kind |-> "json", id |-> "huge", bytes |-> MaxValueBytes + 1]

ValidValues == {Val1, Val2}
InvalidValues == {ValFunction, ValCircular, ValBigInt, ValTooLarge}
Values == ValidValues \cup InvalidValues

TtlUndefined == [kind |-> "undefined", n |-> 0]
TtlNum(n) == [kind |-> "number", n |-> n]
TtlNaN == [kind |-> "nan", n |-> 0]
TtlInfinity == [kind |-> "infinity", n |-> 0]
TtlString == [kind |-> "string", n |-> 0]

ValidTtls == {TtlUndefined, TtlNum(1)}
InvalidTtls == {TtlNum(-1), TtlNaN, TtlInfinity, TtlString, TtlNum(MaxTtlMs + 1)}
Ttls == ValidTtls \cup InvalidTtls

(***************************************************************************)
(* Configurations explored.  maxSizeBytes is config.maxMemoryMB * 1024 *   *)
(* 1024, the byte cap ensureCapacity compares against (maxMemoryMB =       *)
(* 12 / 2^20 gives exactly 12); defaultTtl and cleanupInterval are in      *)
(* clock ticks.                                                            *)
(***************************************************************************)
Config(maxSize, maxSizeBytes, strictValidation) ==
    [defaultTtl |-> 1,
     maxSize |-> maxSize,
     maxSizeBytes |-> maxSizeBytes,
     cleanupInterval |-> 1,
     enableMetrics |-> TRUE,
     strictValidation |-> strictValidation]

\* a one-entry cache in both validation modes, a two-entry cache whose memory
\* cap admits any two values but the two largest, and a three-entry cache
\* whose memory cap admits three small values
Configs ==
    {Config(1, 12, TRUE), Config(2, 12, FALSE), Config(3, 9, FALSE)}

(***************************************************************************)
(* State of one InMemoryApiCache instance and of its environment.          *)
(***************************************************************************)
VARIABLES
    store,                \* Map<string, CacheEntry>: sanitized key -> entry
    accessOrder,          \* Map<string, number> in insertion order: << [key, at] >>
    config,               \* ApiCacheConfig of the instance
    cleanupInterval,      \* TRUE while the field holds a timer handle, FALSE for null
    totalAccesses,
    totalHits,
    memoryUsageBytes,
    isDestroyed,
    operationInProgress,
    now,                  \* Date.now()
    clearIntervalCalls,   \* number of clearInterval() calls made on the handle
    last,                 \* the last completed call and what it returned or threw
    call,                 \* the set() call on the stack and the locals it has computed
    burst,                \* the set() calls of a burst that are still to be issued
    pending,              \* per caller, its withCache() call: awaiting the fetcher or settled
    dup,                  \* the DuplicateDetector: its config, the call on the stack, its result
    db                    \* the DatabaseConnectionPool: pool, activeConnections, calls, timers

vars == << store, accessOrder, config, cleanupInterval, totalAccesses, totalHits,
           memoryUsageBytes, isDestroyed, operationInProgress, now,
           clearIntervalCalls, last, call, burst, pending, dup, db >>

cacheVars == << store, accessOrder, totalAccesses, totalHits, memoryUsageBytes >>

\* What a call leaves for its caller and for the metrics: ret is the kind of
\* value returned ("throw" when it raised err), data the value a get hit
\* returned, metric the result label the call counted under
\* api_cache_operations_total (for a sweep, the reason label counted under
\* api_cache_evictions_total; for a destroy, the result label its clear()
\* counted under operation 'clear'), evicted how often the call counted an
\* LRU eviction.
Result(op, ret, err, data, metric) ==
    [op |-> op, ret |-> ret, err |-> err, data |-> data,
     metric |-> IF config.enableMetrics THEN metric ELSE "", evicted |-> 0]

ErrKeyEmpty == "Cache key must be a non-empty string"
ErrKeyTooLong == "Cache key too long (max 1000 characters)"
ErrTtl == "TTL must be a non-negative finite number"
ErrTtlTooLarge == "TTL too large (max 24 hours)"
ErrNotSerializable == "Cache value is not serializable"
ErrCircular == "Cache value contains circular references"
ErrTooLarge == "Cache value too large (max 10MB)"
ErrConcurrent == "Concurrent cache operation detected"

(***************************************************************************)
(* Validation.  Each operator returns "" when the check passes and the     *)
(* message of the Error it throws otherwise.                               *)
(***************************************************************************)
validateKeyType(key) ==
    IF key.kind # "string" THEN ErrKeyEmpty
    ELSE IF key.s = << >> THEN ErrKeyEmpty
    ELSE IF Len(key.s) > MaxRawKeyLength THEN ErrKeyTooLong
    ELSE ""

\* variant: the sign of the ttl is not checked
validateTTLAllowsNegative(ttl) ==
    IF ttl.kind = "undefined" THEN ""
    ELSE IF ttl.kind # "number" THEN ErrTtl
    ELSE IF ttl.n > MaxTtlMs THEN ErrTtlTooLarge
    ELSE ""

validateTTL(ttl) ==
    IF ttl.kind = "undefined" THEN ""
    ELSE IF ttl.kind # "number" \/ ttl.n < 0 THEN ErrTtl
    ELSE IF ttl.n > MaxTtlMs THEN ErrTtlTooLarge
    ELSE ""

\* the serialized string is represented by its byte length; defined = FALSE is
\* the `undefined` returned for an undefined value
validateValue(value) ==
    IF value.kind = "undefined" THEN [err |-> "", defined |-> FALSE, bytes |-> 0]
    ELSE IF value.kind = "function" THEN [err |-> ErrNotSerializable, defined |-> FALSE, bytes |-> 0]
    ELSE IF value.kind = "circular" THEN [err |-> ErrCircular, defined |-> FALSE, bytes |-> 0]
    ELSE IF value.kind = "unserializable" THEN [err |-> ErrNotSerializable, defined |-> FALSE, bytes |-> 0]
    ELSE IF value.bytes > MaxValueBytes THEN [err |-> ErrTooLarge, defined |-> FALSE, bytes |-> 0]
    ELSE [err |-> "", defined |-> TRUE, bytes |-> value.bytes]

\* variant: the key is validated but the raw string is used as the key
validateAndSanitizeKeyRaw(key) ==
    LET e == validateKeyType(key)
    IN  IF e # "" THEN [err |-> e, key |-> << >>]
        ELSE [err |-> "", key |-> key.s]

validateAndSanitizeKey(key) ==
    LET e == validateKeyType(key)
    IN  IF e # "" THEN [err |-> e, key |-> << >>]
        ELSE [err |-> "", key |-> sanitizeKey(key.s)]

\* validateAndSanitizeKey tabulated over the raw keys the model calls it with
KeyCheck == [key \in RawKeys |-> validateAndSanitizeKey(key)]

validateInput(key, value, ttl) ==
    LET e == validateTTL(ttl)
    IN  IF e # "" THEN [err |-> e, defined |-> FALSE, bytes |-> 0]
        ELSE validateValue(value)

\* jsonSize + Math.ceil(jsonSize * 0.4); the double product rounds up to
\* ceil(2 * jsonSize / 5) for every size a value can have
estimateSize(jsonSize) == jsonSize + ((2 * jsonSize + 4) \div 5)

(***************************************************************************)
(* Map operations on the two maps.                                         *)
(***************************************************************************)
StoreHas(st, k) == k \in DOMAIN st
StoreSize(st) == Cardinality(DOMAIN st)
\* variant: a key that is already in the map keeps its entry
StoreSetKeepsExisting(st, k, entry) ==
    [x \in (DOMAIN st) \cup {k} |-> IF x \in DOMAIN st THEN st[x] ELSE entry]
StoreSet(st, k, entry) == [x \in (DOMAIN st) \cup {k} |-> IF x = k THEN entry ELSE st[x]]
StoreDelete(st, k) == [x \in (DOMAIN st) \ {k} |-> st[x]]
EmptyStore == [x \in {} |-> 0]

OrderKeys(ord) == {ord[i].key : i \in 1..Len(ord)}
\* Map.prototype.set: a key already in the map keeps its position
OrderSet(ord, k, at) ==
    IF k \in OrderKeys(ord)
    THEN [i \in 1..Len(ord) |-> IF ord[i].key = k THEN [key |-> k, at |-> at] ELSE ord[i]]
    ELSE Append(ord, [key |-> k, at |-> at])
OrderDelete(ord, k) == SelectSeq(ord, LAMBDA e : e.key # k)

\* variant: the freshness test is off by one tick
IsExpiredLate(entry, t) == t - entry.timestamp > entry.ttl + 1

\* variant: a hit rewrites the key's slot without moving it
TouchOrderInPlace(ord, k, at) == OrderSet(ord, k, at)

\* a get hit: accessOrder.delete(key) then accessOrder.set(key, now)
TouchOrder(ord, k, at) == OrderSet(OrderDelete(ord, k), k, at)

IsExpired(entry, t) == t - entry.timestamp > entry.ttl

(***************************************************************************)
(* Eviction.  The operators work on a record c = [store, accessOrder,      *)
(* memoryUsageBytes, err, hung, evicted] holding the three fields a set    *)
(* mutates, the message of an Error thrown on the way, whether the while   *)
(* loop of ensureCapacity can no longer make progress, and the number of   *)
(* evictions counted.                                                      *)
(***************************************************************************)
CacheOf(st, ord, mem) ==
    [store |-> st, accessOrder |-> ord, memoryUsageBytes |-> mem, err |-> "", hung |-> FALSE,
     evicted |-> 0]

\* variant: the eviction forgets to lower memoryUsageBytes
evictOldestKeepsMemory(c) ==
    IF Len(c.accessOrder) = 0 THEN c
    ELSE LET firstKey == c.accessOrder[1].key
         IN  IF ~StoreHas(c.store, firstKey)
             THEN [c EXCEPT !.accessOrder = OrderDelete(c.accessOrder, firstKey)]
             ELSE [c EXCEPT !.store = StoreDelete(c.store, firstKey),
                            !.accessOrder = OrderDelete(c.accessOrder, firstKey),
                            !.evicted = c.evicted + 1]

\* variant: an expired entry, when there is one, is evicted before the head
evictOldestPrefersExpired(c) ==
    IF Len(c.accessOrder) = 0 THEN c
    ELSE LET stale == {i \in 1..Len(c.accessOrder) :
                         /\ StoreHas(c.store, c.accessOrder[i].key)
                         /\ IsExpired(c.store[c.accessOrder[i].key], now)}
             first == IF stale = {} THEN 1
                      ELSE CHOOSE i \in stale : \A j \in stale : i <= j
             firstKey == c.accessOrder[first].key
         IN  IF ~StoreHas(c.store, firstKey)
             THEN [c EXCEPT !.accessOrder = OrderDelete(c.accessOrder, firstKey)]
             ELSE [c EXCEPT !.store = StoreDelete(c.store, firstKey),
                            !.accessOrder = OrderDelete(c.accessOrder, firstKey),
                            !.memoryUsageBytes = c.memoryUsageBytes - c.store[firstKey].sizeBytes,
                            !.evicted = c.evicted + 1]

evictOldest(c) ==
    IF Len(c.accessOrder) = 0 THEN c
    ELSE LET firstKey == c.accessOrder[1].key
         IN  IF ~StoreHas(c.store, firstKey)
             THEN [c EXCEPT !.accessOrder = OrderDelete(c.accessOrder, firstKey)]
             ELSE IF operationInProgress
             THEN [c EXCEPT !.err = ErrConcurrent]
             ELSE [c EXCEPT !.store = StoreDelete(c.store, firstKey),
                            !.accessOrder = OrderDelete(c.accessOrder, firstKey),
                            !.memoryUsageBytes = c.memoryUsageBytes - c.store[firstKey].sizeBytes,
                            !.evicted = c.evicted + 1]

\* variant: the entry-count test uses > instead of >=
RECURSIVE ensureCapacityOffByOne(_, _)
ensureCapacityOffByOne(c, newEntrySize) ==
    IF c.err # "" \/ c.hung THEN c
    ELSE IF /\ \/ StoreSize(c.store) > config.maxSize
               \/ c.memoryUsageBytes + newEntrySize > config.maxSizeBytes
            /\ StoreSize(c.store) # 0
    THEN LET c2 == evictOldest(c)
         IN  IF c2 = c THEN [c EXCEPT !.hung = TRUE]
             ELSE ensureCapacityOffByOne(c2, newEntrySize)
    ELSE c

\* variant: the loop tests the entry count only
RECURSIVE ensureCapacityCountOnly(_, _)
ensureCapacityCountOnly(c, newEntrySize) ==
    IF c.err # "" \/ c.hung THEN c
    ELSE IF StoreSize(c.store) >= config.maxSize /\ StoreSize(c.store) # 0
    THEN LET c2 == evictOldest(c)
         IN  IF c2 = c THEN [c EXCEPT !.hung = TRUE]
             ELSE ensureCapacityCountOnly(c2, newEntrySize)
    ELSE c

RECURSIVE ensureCapacity(_, _)
ensureCapacity(c, newEntrySize) ==
    IF c.err # "" \/ c.hung THEN c
    ELSE IF /\ \/ StoreSize(c.store) >= config.maxSize
               \/ c.memoryUsageBytes + newEntrySize > config.maxSizeBytes
            /\ StoreSize(c.store) # 0
    THEN LET c2 == evictOldest(c)
         IN  IF c2 = c THEN [c EXCEPT !.hung = TRUE]
             ELSE ensureCapacity(c2, newEntrySize)
    ELSE c

(***************************************************************************)
(* Public operations.                                                      *)
(***************************************************************************)
\* variant: withAtomicOperation without the finally block
AtomicOperationLeavesFlagSet == TRUE

\* operationInProgress when withAtomicOperation has run its operation:
\* finally { this.operationInProgress = false }
AfterAtomicOperation == FALSE

TickLength == config.defaultTtl + 1

\* no set() call is on the stack
Idle ==
    [phase |-> "idle", key |-> << >>, data |-> "", ttl |-> 0, sizeBytes |-> 0, at |-> 0,
     memoryDelta |-> 0, evicted |-> 0]

\* no burst of calls is under way
NoBurst == [pre |-> {}, preTodo |-> {}, todo |-> {}, value |-> << >>]

\* what checkDuplicate returns
DuplicateResult(isDuplicate, submissionCount, timeWindow, reason) ==
    [isDuplicate |-> isDuplicate, submissionCount |-> submissionCount,
     timeWindow |-> timeWindow, reason |-> reason]

NoResult == DuplicateResult(FALSE, 0, 0, "none")

\* what generalCache.get(cacheKey) returned to checkDuplicate
NoCounter == [found |-> FALSE, count |-> 0, firstSeen |-> 0]

DetectorConfig(enabled, windowMs, maxSubmissions) ==
    [enabled |-> enabled, windowMs |-> windowMs, maxSubmissions |-> maxSubmissions]

\* a detector with no call on the stack
Detector(cfg) ==
    [config |-> cfg, phase |-> "idle", key |-> NullKey, existing |-> NoCounter,
     result |-> NoResult]

\* no detector is in use
NoDetector == Detector(DetectorConfig(FALSE, 0, 0))

\* a caller of the pool with no call of getConnection: no connection held,
\* no timer of waitForConnection scheduled
NoClient == << >>

NoDbCall ==
    [phase |-> "none", conn |-> NoClient, err |-> "", timeout |-> FALSE, interval |-> FALSE,
     with |-> FALSE, released |-> FALSE]

\* a pool of the given connections, pool being the idle stack
Pool(configured, maxConnections, clients, callers) ==
    [configured |-> configured, maxConnections |-> maxConnections, pool |-> clients,
     activeConnections |-> {}, closed |-> FALSE, calls |-> [c \in callers |-> NoDbCall]]

\* no pool is in use
NoPool == Pool(FALSE, 0, << >>, {})

\* the callers of withCache(); each has at most one call in flight
Callers == {"c1", "c2"}

\* a caller that has not called withCache()
NoCall ==
    [phase |-> "none", key |-> NullKey, ttl |-> TtlUndefined, data |-> "", cached |-> FALSE,
     err |-> "", fetcherCalls |-> 0]

NoPending == [c \in Callers |-> NoCall]

TypeOK ==
    /\ config \in Configs
    /\ cleanupInterval \in BOOLEAN
    /\ isDestroyed \in BOOLEAN
    /\ operationInProgress \in BOOLEAN
    /\ totalAccesses \in Nat
    /\ totalHits \in Nat
    /\ now \in 0..(MaxTicks * TickLength)
    /\ clearIntervalCalls \in Nat

Init ==
    /\ store = EmptyStore
    /\ accessOrder = << >>
    /\ config \in Configs
    /\ cleanupInterval = (config.cleanupInterval > 0)
    /\ totalAccesses = 0
    /\ totalHits = 0
    /\ memoryUsageBytes = 0
    /\ isDestroyed = FALSE
    /\ operationInProgress = FALSE
    /\ now = 0
    /\ clearIntervalCalls = 0
    /\ last = Result("new", "void", "", "", "")
    /\ call = Idle
    /\ burst = NoBurst
    /\ pending = NoPending
    /\ dup = NoDetector
    /\ db = NoPool

\* const entryTtl = ttl || this.config.defaultTtl
EntryTtl(ttl) == IF ttl.kind = "number" /\ ttl.n # 0 THEN ttl.n ELSE config.defaultTtl

\* set(key, value, ttl): the state a completed call leaves, err = "" when it returns
SetOutcome(key, value, ttl) ==
    LET k == KeyCheck[key]
        before == CacheOf(store, accessOrder, memoryUsageBytes)
    IN  IF k.err # "" THEN [before EXCEPT !.err = k.err]
        ELSE LET v == validateInput(key, value, ttl)
             IN  IF v.err # "" THEN [before EXCEPT !.err = v.err]
                 ELSE LET sizeBytes == IF v.defined THEN estimateSize(v.bytes) ELSE 0
                          c == ensureCapacity(before, sizeBytes)
                          existing == StoreHas(c.store, k.key)
                          memoryDelta == IF existing
                                         THEN sizeBytes - c.store[k.key].sizeBytes
                                         ELSE sizeBytes
                          entry == [data |-> value.id,
                                    timestamp |-> now,
                                    ttl |-> EntryTtl(ttl),
                                    hitCount |-> 0,
                                    lastAccessed |-> now,
                                    sizeBytes |-> sizeBytes]
                      IN  IF c.err # "" \/ c.hung THEN c
                          ELSE IF operationInProgress THEN [c EXCEPT !.err = ErrConcurrent]
                          ELSE [c EXCEPT !.store = StoreSet(c.store, k.key, entry),
                                         !.accessOrder = OrderSet(c.accessOrder, k.key, now),
                                         !.memoryUsageBytes = c.memoryUsageBytes + memoryDelta]

Set(key, value, ttl) ==
    LET out == SetOutcome(key, value, ttl)
    IN  /\ ~out.hung
        /\ store' = out.store
        /\ accessOrder' = out.accessOrder
        /\ memoryUsageBytes' = out.memoryUsageBytes
        /\ last' = IF out.err # ""
                   THEN [Result("set", "throw", out.err, "", "error") EXCEPT !.evicted = out.evicted]
                   ELSE [Result("set", "void", "", "", "success") EXCEPT !.evicted = out.evicted]
        /\ operationInProgress' = IF out.evicted > 0 \/ out.err = ""
                                  THEN AfterAtomicOperation
                                  ELSE operationInProgress
        /\ UNCHANGED << config, cleanupInterval, totalAccesses, totalHits, isDestroyed,
                        now, clearIntervalCalls >>

\* variant: the catch block ignores strictValidation
DegradeAlwaysSentinel(op, err, sentinel) ==
    Result(op, sentinel, "", "", IF op = "has" THEN "" ELSE "error")

\* what a read-path method does with a validation error: rethrow under
\* strictValidation, the sentinel otherwise
Degrade(op, err, sentinel) ==
    LET metric == IF op = "has" THEN "" ELSE "error"
    IN  IF config.strictValidation THEN Result(op, "throw", err, "", metric)
        ELSE Result(op, sentinel, "", "", metric)

\* variant: a hit counts but does not refresh lastAccessed
HitEntryKeepsLastAccessed(entry, t) == [entry EXCEPT !.hitCount = @ + 1]

\* entry.hitCount++; entry.lastAccessed = now
HitEntry(entry, t) == [entry EXCEPT !.hitCount = @ + 1, !.lastAccessed = t]

Get(key) ==
    LET k == KeyCheck[key]
    IN  IF k.err # ""
        THEN /\ last' = Degrade("get", k.err, "null")
             /\ UNCHANGED << store, accessOrder, config, cleanupInterval, totalAccesses,
                             totalHits, memoryUsageBytes, isDestroyed, operationInProgress,
                             now, clearIntervalCalls >>
        ELSE /\ totalAccesses' = totalAccesses + 1
             /\ IF ~StoreHas(store, k.key)
                THEN /\ last' = Result("get", "null", "", "", "miss")
                     /\ UNCHANGED << store, accessOrder, totalHits, memoryUsageBytes,
                                     operationInProgress >>
                ELSE IF operationInProgress
                THEN /\ last' = Degrade("get", ErrConcurrent, "null")
                     /\ UNCHANGED << store, accessOrder, totalHits, memoryUsageBytes,
                                     operationInProgress >>
                ELSE IF IsExpired(store[k.key], now)
                THEN /\ store' = StoreDelete(store, k.key)
                     /\ accessOrder' = OrderDelete(accessOrder, k.key)
                     /\ memoryUsageBytes' = memoryUsageBytes - store[k.key].sizeBytes
                     /\ last' = Result("get", "null", "", "", "expired")
                     /\ operationInProgress' = AfterAtomicOperation
                     /\ UNCHANGED totalHits
                ELSE /\ totalHits' = totalHits + 1
                     /\ store' = [store EXCEPT ![k.key] = HitEntry(@, now)]
                     /\ accessOrder' = TouchOrder(accessOrder, k.key, now)
                     /\ last' = Result("get", "value", "", store[k.key].data, "hit")
                     /\ operationInProgress' = AfterAtomicOperation
                     /\ UNCHANGED memoryUsageBytes
             /\ UNCHANGED << config, cleanupInterval, isDestroyed, now, clearIntervalCalls >>

\* variant: a has() on a stored live key refreshes it like a get hit
HasTouchesEntry(key) ==
    LET k == KeyCheck[key]
    IN  /\ IF k.err # ""
           THEN /\ last' = Degrade("has", k.err, "false")
                /\ UNCHANGED << store, accessOrder, memoryUsageBytes, operationInProgress >>
           ELSE IF ~StoreHas(store, k.key)
           THEN /\ last' = Result("has", "false", "", "", "")
                /\ UNCHANGED << store, accessOrder, memoryUsageBytes, operationInProgress >>
           ELSE IF ~IsExpired(store[k.key], now)
           THEN /\ last' = Result("has", "true", "", "", "")
                /\ store' = [store EXCEPT ![k.key].lastAccessed = now]
                /\ accessOrder' = TouchOrder(accessOrder, k.key, now)
                /\ UNCHANGED << memoryUsageBytes, operationInProgress >>
           ELSE /\ store' = StoreDelete(store, k.key)
                /\ accessOrder' = OrderDelete(accessOrder, k.key)
                /\ memoryUsageBytes' = memoryUsageBytes - store[k.key].sizeBytes
                /\ operationInProgress' = AfterAtomicOperation
                /\ last' = Result("has", "false", "", "", "")
        /\ UNCHANGED << config, cleanupInterval, totalAccesses, totalHits, isDestroyed,
                        now, clearIntervalCalls >>

Has(key) ==
    LET k == KeyCheck[key]
    IN  /\ IF k.err # ""
           THEN /\ last' = Degrade("has", k.err, "false")
                /\ UNCHANGED << store, accessOrder, memoryUsageBytes, operationInProgress >>
           ELSE IF ~StoreHas(store, k.key)
           THEN /\ last' = Result("has", "false", "", "", "")
                /\ UNCHANGED << store, accessOrder, memoryUsageBytes, operationInProgress >>
           ELSE IF ~IsExpired(store[k.key], now)
           THEN /\ last' = Result("has", "true", "", "", "")
                /\ UNCHANGED << store, accessOrder, memoryUsageBytes, operationInProgress >>
           ELSE IF operationInProgress
           THEN /\ last' = Degrade("has", ErrConcurrent, "false")
                /\ UNCHANGED << store, accessOrder, memoryUsageBytes, operationInProgress >>
           ELSE /\ store' = StoreDelete(store, k.key)
                /\ accessOrder' = OrderDelete(accessOrder, k.key)
                /\ memoryUsageBytes' = memoryUsageBytes - store[k.key].sizeBytes
                /\ operationInProgress' = AfterAtomicOperation
                /\ last' = Result("has", "false", "", "", "")
        /\ UNCHANGED << config, cleanupInterval, totalAccesses, totalHits, isDestroyed,
                        now, clearIntervalCalls >>

\* variant: delete() treats an expired entry as absent
DeleteSkipsExpired(key) ==
    LET k == KeyCheck[key]
    IN  /\ IF k.err # ""
           THEN /\ last' = Degrade("delete", k.err, "false")
                /\ UNCHANGED << store, accessOrder, memoryUsageBytes, operationInProgress >>
           ELSE IF StoreHas(store, k.key) /\ ~IsExpired(store[k.key], now)
           THEN /\ store' = StoreDelete(store, k.key)
                /\ accessOrder' = OrderDelete(accessOrder, k.key)
                /\ memoryUsageBytes' = memoryUsageBytes - store[k.key].sizeBytes
                /\ operationInProgress' = AfterAtomicOperation
                /\ last' = Result("delete", "true", "", "", "success")
           ELSE /\ last' = Result("delete", "false", "", "", "")
                /\ UNCHANGED << store, accessOrder, memoryUsageBytes, operationInProgress >>
        /\ UNCHANGED << config, cleanupInterval, totalAccesses, totalHits, isDestroyed,
                        now, clearIntervalCalls >>

Delete(key) ==
    LET k == KeyCheck[key]
    IN  /\ IF k.err # ""
           THEN /\ last' = Degrade("delete", k.err, "false")
                /\ UNCHANGED << store, accessOrder, memoryUsageBytes, operationInProgress >>
           ELSE IF operationInProgress
           THEN /\ last' = Degrade("delete", ErrConcurrent, "false")
                /\ UNCHANGED << store, accessOrder, memoryUsageBytes, operationInProgress >>
           ELSE IF StoreHas(store, k.key)
           THEN /\ store' = StoreDelete(store, k.key)
                /\ accessOrder' = OrderDelete(accessOrder, k.key)
                /\ memoryUsageBytes' = memoryUsageBytes - store[k.key].sizeBytes
                /\ operationInProgress' = AfterAtomicOperation
                /\ last' = Result("delete", "true", "", "", "success")
           ELSE /\ accessOrder' = OrderDelete(accessOrder, k.key)
                /\ operationInProgress' = AfterAtomicOperation
                /\ last' = Result("delete", "false", "", "", "")
                /\ UNCHANGED << store, memoryUsageBytes >>
        /\ UNCHANGED << config, cleanupInterval, totalAccesses, totalHits, isDestroyed,
                        now, clearIntervalCalls >>

\* variant: clear() drops the entries but keeps the access counters
ClearBodyKeepsCounters ==
    /\ store' = EmptyStore
    /\ accessOrder' = << >>
    /\ memoryUsageBytes' = 0
    /\ UNCHANGED << totalAccesses, totalHits >>

\* variant: clear() resets totalAccesses but not totalHits
ClearBodyKeepsHits ==
    /\ store' = EmptyStore
    /\ accessOrder' = << >>
    /\ totalAccesses' = 0
    /\ memoryUsageBytes' = 0
    /\ UNCHANGED totalHits

\* the body of clear(), shared with destroy()
ClearBody ==
    /\ store' = EmptyStore
    /\ accessOrder' = << >>
    /\ totalAccesses' = 0
    /\ totalHits' = 0
    /\ memoryUsageBytes' = 0

Clear ==
    /\ ClearBody
    /\ last' = Result("clear", "void", "", "", "success")
    /\ UNCHANGED << config, cleanupInterval, isDestroyed, operationInProgress, now,
                    clearIntervalCalls >>

\* A quotient of two non-negative integers, kept exact as numerator and
\* denominator.
Ratio(num, den) == [num |-> num, den |-> den]

\* getStats(): the snapshot.  The two memory figures are kept in bytes, the
\* unit of 2^-20 MB: memoryUsageBytes / (1024 * 1024) and config.maxMemoryMB
\* are both the byte counts divided by 2^20.
getStats ==
    [size |-> StoreSize(store),
     maxSize |-> config.maxSize,
     memoryUsageMB |-> memoryUsageBytes,
     maxMemoryMB |-> config.maxSizeBytes,
     expired |-> Cardinality({k \in DOMAIN store : now - store[k].timestamp > store[k].ttl}),
     totalHits |-> totalHits,
     totalAccesses |-> totalAccesses,
     hitRate |-> IF totalAccesses > 0 THEN Ratio(totalHits, totalAccesses) ELSE Ratio(0, 1)]

\* comparison of exact quotients, by cross-multiplication
RatioLess(a, b) == a.num * b.den < b.num * a.den

\* the thresholds of getCacheHealth
DegradedMinAccesses == 100
LowHitRate == Ratio(1, 2)
HighMemoryUse == Ratio(9, 10)

\* one check of getCacheHealth: if (cond) { issues.push(issue); status = to }
HealthCheck(h, cond, issue, to) ==
    IF cond THEN [status |-> to, issues |-> Append(h.issues, issue)] ELSE h

\* variant: the unhealthy conditions are tested before the degraded ones
getCacheHealthDegradedLast(stats) ==
    LET memoryUse == Ratio(stats.memoryUsageMB, stats.maxMemoryMB)
        h0 == [status |-> "healthy", issues |-> << >>]
        h1 == HealthCheck(h0, stats.memoryUsageMB >= stats.maxMemoryMB,
                          "Memory limit exceeded", "unhealthy")
        h2 == HealthCheck(h1, stats.size >= stats.maxSize,
                          "Cache size limit reached", "unhealthy")
        h3 == HealthCheck(h2, /\ RatioLess(stats.hitRate, LowHitRate)
                              /\ stats.totalAccesses > DegradedMinAccesses,
                          "Low cache hit rate detected", "degraded")
    IN  HealthCheck(h3, RatioLess(HighMemoryUse, memoryUse),
                    "High memory usage detected", "degraded")

\* getCacheHealth(): the four checks in the order of the code, a later one
\* overwriting the status set by an earlier one
getCacheHealth(stats) ==
    LET memoryUse == Ratio(stats.memoryUsageMB, stats.maxMemoryMB)
        h0 == [status |-> "healthy", issues |-> << >>]
        h1 == HealthCheck(h0, /\ RatioLess(stats.hitRate, LowHitRate)
                              /\ stats.totalAccesses > DegradedMinAccesses,
                          "Low cache hit rate detected", "degraded")
        h2 == HealthCheck(h1, RatioLess(HighMemoryUse, memoryUse),
                          "High memory usage detected", "degraded")
        h3 == HealthCheck(h2, stats.memoryUsageMB >= stats.maxMemoryMB,
                          "Memory limit exceeded", "unhealthy")
    IN  HealthCheck(h3, stats.size >= stats.maxSize,
                    "Cache size limit reached", "unhealthy")

\* a call of getCacheHealth() on the instance: it reads the snapshot and
\* changes nothing
Health ==
    /\ last' = Result("health", getCacheHealth(getStats).status, "", "", "")
    /\ UNCHANGED << store, accessOrder, config, cleanupInterval, totalAccesses, totalHits,
                    memoryUsageBytes, isDestroyed, operationInProgress, now,
                    clearIntervalCalls >>

\* variant: the sweep also collects the entries whose age equals their ttl
ExpiredKeysAtBoundary(st, t) == {k \in DOMAIN st : t - st[k].timestamp >= st[k].ttl}

\* variant: the sweep collects an entry only a millisecond after it expired
ExpiredKeysLate(st, t) == {k \in DOMAIN st : t - st[k].timestamp > st[k].ttl + 1}

\* the keys cleanup() collects in its first pass
ExpiredKeys(st, t) == {k \in DOMAIN st : IsExpired(st[k], t)}

RECURSIVE SumSizes(_, _)
SumSizes(st, keys) ==
    IF keys = {} THEN 0
    ELSE LET k == CHOOSE x \in keys : TRUE
         IN  st[k].sizeBytes + SumSizes(st, keys \ {k})

\* variant: the sweep forgets to delete the swept keys from accessOrder
cleanupKeepsOrder ==
    IF isDestroyed
    THEN /\ last' = Result("sweep", "void", "", "", "")
         /\ UNCHANGED << store, accessOrder, memoryUsageBytes, operationInProgress >>
    ELSE LET toDelete == ExpiredKeys(store, now)
             memoryFreed == SumSizes(store, toDelete)
         IN  /\ store' = [k \in (DOMAIN store) \ toDelete |-> store[k]]
             /\ memoryUsageBytes' = memoryUsageBytes - memoryFreed
             /\ operationInProgress' = AfterAtomicOperation
             /\ last' = Result("sweep", "void", "", "",
                               IF toDelete # {} THEN "expired" ELSE "")
             /\ UNCHANGED accessOrder

\* cleanup(): one sweep cycle
cleanup ==
    IF isDestroyed
    THEN /\ last' = Result("sweep", "void", "", "", "")
         /\ UNCHANGED << store, accessOrder, memoryUsageBytes, operationInProgress >>
    ELSE IF operationInProgress
    THEN /\ last' = Result("sweep", "throw", ErrConcurrent, "", "")
         /\ UNCHANGED << store, accessOrder, memoryUsageBytes, operationInProgress >>
    ELSE LET toDelete == ExpiredKeys(store, now)
             memoryFreed == SumSizes(store, toDelete)
         IN  /\ operationInProgress' = AfterAtomicOperation
             /\ store' = [k \in (DOMAIN store) \ toDelete |-> store[k]]
             /\ accessOrder' = SelectSeq(accessOrder, LAMBDA e : e.key \notin toDelete)
             /\ memoryUsageBytes' = memoryUsageBytes - memoryFreed
             /\ last' = Result("sweep", "void", "", "",
                               IF toDelete # {} THEN "expired" ELSE "")

\* variant: neither the callback nor cleanup() tests isDestroyed
IntervalCallbackSweepsDestroyed ==
    /\ config.cleanupInterval > 0
    /\ LET toDelete == ExpiredKeys(store, now)
           memoryFreed == SumSizes(store, toDelete)
       IN  /\ store' = [k \in (DOMAIN store) \ toDelete |-> store[k]]
           /\ accessOrder' = SelectSeq(accessOrder, LAMBDA e : e.key \notin toDelete)
           /\ memoryUsageBytes' = memoryUsageBytes - memoryFreed
           /\ last' = Result("sweep", "void", "", "",
                             IF toDelete # {} THEN "expired" ELSE "")
    /\ UNCHANGED << config, cleanupInterval, clearIntervalCalls, totalAccesses, totalHits,
                    isDestroyed, operationInProgress, now >>

\* the setInterval callback installed by startCleanup().  The callback is
\* allowed to run at any time after construction, also after destroy(): that
\* covers a tick that was already due when the timer was cleared.
IntervalCallback ==
    /\ config.cleanupInterval > 0
    /\ IF isDestroyed
       THEN /\ cleanupInterval' = FALSE
            /\ clearIntervalCalls' = IF cleanupInterval THEN clearIntervalCalls + 1
                                     ELSE clearIntervalCalls
            /\ last' = Result("sweep", "void", "", "", "")
            /\ UNCHANGED << store, accessOrder, memoryUsageBytes, operationInProgress >>
       ELSE /\ cleanup
            /\ UNCHANGED << cleanupInterval, clearIntervalCalls >>
    /\ UNCHANGED << config, totalAccesses, totalHits, isDestroyed, now >>

\* variant: destroy() without the isDestroyed guard
DestroyAgain ==
    /\ isDestroyed' = TRUE
    /\ cleanupInterval' = FALSE
    /\ clearIntervalCalls' = IF cleanupInterval THEN clearIntervalCalls + 1
                             ELSE clearIntervalCalls
    /\ ClearBody
    /\ last' = Result("destroy", "void", "", "", "success")
    /\ UNCHANGED << config, operationInProgress, now >>

\* destroy(): returns at once on a destroyed instance; otherwise clears the
\* timer handle and calls clear(), which counts clear/success
Destroy ==
    IF isDestroyed
    THEN /\ last' = Result("destroy", "void", "", "", "")
         /\ UNCHANGED << store, accessOrder, config, cleanupInterval, totalAccesses,
                         totalHits, memoryUsageBytes, isDestroyed, operationInProgress,
                         now, clearIntervalCalls >>
    ELSE /\ isDestroyed' = TRUE
         /\ cleanupInterval' = FALSE
         /\ clearIntervalCalls' = IF cleanupInterval THEN clearIntervalCalls + 1
                                  ELSE clearIntervalCalls
         /\ ClearBody
         /\ last' = Result("destroy", "void", "", "", "success")
         /\ UNCHANGED << config, operationInProgress, now >>

\* the clock read by Date.now() moves forward between calls, each time by
\* more than the default ttl
AdvanceTime ==
    /\ now < MaxTicks * TickLength
    /\ now' = now + TickLength
    /\ UNCHANGED << store, accessOrder, config, cleanupInterval, totalAccesses, totalHits,
                    memoryUsageBytes, isDestroyed, operationInProgress, clearIntervalCalls,
                    last >>

\* the calls explored: set with every valid key and value, with the ttl left
\* out and given, and with one invalid key, value and ttl; the other methods
\* with every valid key and with an overlong key
SetInputs ==
    (ValidRawKeys \X ValidValues \X {TtlUndefined})
      \cup {<< KeyA, Val1, ttl >> : ttl \in ValidTtls}
      \cup {<< NullKey, Val1, TtlUndefined >>,
            << KeyA, ValCircular, TtlUndefined >>,
            << KeyA, Val1, TtlNum(-1) >>}
ProbeKeys == ValidRawKeys \cup {TooLongKey}

\* every method is synchronous: a call made while no other call is on the
\* stack runs to its return or throw before anything else happens
SetStep ==
    /\ call.phase = "idle"
    /\ \E in \in SetInputs : Set(in[1], in[2], in[3])
    /\ UNCHANGED << call, burst, pending, dup, db >>
\* a get() that counts is explored while totalAccesses < limit
CanCount(key, limit) == KeyCheck[key].err = "" => totalAccesses < limit

GetStep ==
    /\ call.phase = "idle"
    /\ \E key \in ProbeKeys : CanCount(key, MaxAccesses) /\ Get(key)
    /\ UNCHANGED << call, burst, pending, dup, db >>
HasStep ==
    /\ call.phase = "idle"
    /\ \E key \in ProbeKeys : Has(key)
    /\ UNCHANGED << call, burst, pending, dup, db >>
\* variant: delete() runs although a set() is on the stack
DeleteStepPreempts ==
    /\ \E key \in ProbeKeys : Delete(key)
    /\ UNCHANGED << call, burst, pending, dup, db >>
DeleteStep ==
    /\ call.phase = "idle"
    /\ \E key \in ProbeKeys : Delete(key)
    /\ UNCHANGED << call, burst, pending, dup, db >>
ClearStep ==
    /\ call.phase = "idle"
    /\ Clear
    /\ UNCHANGED << call, burst, pending, dup, db >>
TimerStep ==
    /\ call.phase = "idle"
    /\ IntervalCallback
    /\ UNCHANGED << call, burst, pending, dup, db >>
DestroyStep ==
    /\ call.phase = "idle"
    /\ Destroy
    /\ UNCHANGED << call, burst, pending, dup, db >>
ClockStep ==
    /\ AdvanceTime
    /\ UNCHANGED << call, burst, pending, dup, db >>

Next ==
    \/ SetStep
    \/ GetStep
    \/ HasStep
    \/ DeleteStep
    \/ ClearStep
    \/ TimerStep
    \/ DestroyStep
    \/ ClockStep

Spec == Init /\ [][Next]_vars

(***************************************************************************)
(* set() statement by statement: validation, each iteration of the loop of *)
(* ensureCapacity, the read of the prior entry, the write.  The locals of  *)
(* the call are kept in call.                                              *)
(***************************************************************************)
\* the loop condition of ensureCapacity
CapacityExceeded(newEntrySize) ==
    \/ StoreSize(store) >= config.maxSize
    \/ memoryUsageBytes + newEntrySize > config.maxSizeBytes

\* variant: the loop has no test for the empty store
LoopContinuesOnEmptyStore(newEntrySize) == CapacityExceeded(newEntrySize)

\* while (...) { if (this.store.size === 0) break; ... }
LoopContinues(newEntrySize) ==
    CapacityExceeded(newEntrySize) /\ StoreSize(store) # 0

SetThrows(err) ==
    /\ last' = [Result("set", "throw", err, "", "error") EXCEPT !.evicted = call.evicted]
    /\ call' = Idle
    /\ UNCHANGED << store, accessOrder, memoryUsageBytes, operationInProgress >>

\* set() up to the call of ensureCapacity
BeginSet(key, value, ttl) ==
    /\ call.phase = "idle"
    /\ LET k == KeyCheck[key]
           v == validateInput(key, value, ttl)
       IN  IF k.err # "" THEN SetThrows(k.err)
           ELSE IF v.err # "" THEN SetThrows(v.err)
           ELSE /\ call' = [phase |-> "capacity",
                            key |-> k.key,
                            data |-> value.id,
                            ttl |-> EntryTtl(ttl),
                            sizeBytes |-> IF v.defined THEN estimateSize(v.bytes) ELSE 0,
                            at |-> now,
                            memoryDelta |-> 0,
                            evicted |-> 0]
                /\ UNCHANGED << store, accessOrder, memoryUsageBytes, last,
                                operationInProgress >>
    /\ UNCHANGED << config, cleanupInterval, totalAccesses, totalHits, isDestroyed,
                    now, clearIntervalCalls >>

\* one iteration of the loop of ensureCapacity
EvictStep ==
    /\ call.phase = "capacity"
    /\ LoopContinues(call.sizeBytes)
    /\ LET c == evictOldest(CacheOf(store, accessOrder, memoryUsageBytes))
       IN  IF c.err # "" THEN SetThrows(c.err)
           ELSE /\ store' = c.store
                /\ accessOrder' = c.accessOrder
                /\ memoryUsageBytes' = c.memoryUsageBytes
                /\ call' = [call EXCEPT !.evicted = @ + c.evicted]
                /\ operationInProgress' = IF c.evicted > 0 THEN AfterAtomicOperation
                                          ELSE operationInProgress
                /\ UNCHANGED last
    /\ UNCHANGED << config, cleanupInterval, totalAccesses, totalHits, isDestroyed,
                    now, clearIntervalCalls, burst, pending, dup, db >>

\* the loop is left; existingEntry and memoryDelta are computed
ReadPrior ==
    /\ call.phase = "capacity"
    /\ ~LoopContinues(call.sizeBytes)
    /\ call' = [call EXCEPT !.phase = "write",
                            !.memoryDelta = IF StoreHas(store, call.key)
                                            THEN call.sizeBytes - store[call.key].sizeBytes
                                            ELSE call.sizeBytes]
    /\ UNCHANGED << store, accessOrder, config, cleanupInterval, totalAccesses, totalHits,
                    memoryUsageBytes, isDestroyed, operationInProgress, now,
                    clearIntervalCalls, last, burst, pending, dup, db >>

\* the withAtomicOperation block of set() and its return
WriteStep ==
    /\ call.phase = "write"
    /\ IF operationInProgress THEN SetThrows(ErrConcurrent)
       ELSE /\ store' = StoreSet(store, call.key,
                                 [data |-> call.data,
                                  timestamp |-> call.at,
                                  ttl |-> call.ttl,
                                  hitCount |-> 0,
                                  lastAccessed |-> call.at,
                                  sizeBytes |-> call.sizeBytes])
            /\ accessOrder' = OrderSet(accessOrder, call.key, call.at)
            /\ memoryUsageBytes' = memoryUsageBytes + call.memoryDelta
            /\ last' = [Result("set", "void", "", "", "success") EXCEPT !.evicted = call.evicted]
            /\ call' = Idle
            /\ operationInProgress' = AfterAtomicOperation
    /\ UNCHANGED << config, cleanupInterval, totalAccesses, totalHits, isDestroyed,
                    now, clearIntervalCalls, burst, pending, dup, db >>

\* A burst: set() calls with pairwise distinct sanitized keys, more of them
\* than maxSize, issued in any order and nothing else.  Before the burst the
\* cache has served the set() calls of burst.pre, in any order: it is empty
\* or holds entries, under keys of the burst or under other keys.
BurstValues == {Val1, Val2, ValWide}
BurstConfigs == {Config(1, 12, TRUE), Config(2, 12, FALSE), Config(4, 100, FALSE)}

\* the keys in use on a cache of maxSize entries
BurstKeys(maxSize) ==
    IF maxSize > 2 THEN ValidRawKeys \cup {KeyC, KeyD} ELSE ValidRawKeys

\* the values of the entries of a burst; on the larger cache all entries
\* are of one size
BurstValuesOf(maxSize) == IF maxSize > 2 THEN {Val1} ELSE BurstValues

Bursts(maxSize) ==
    UNION {[pre : {pre}, preTodo : {pre}, todo : {keys},
            value : [keys -> BurstValuesOf(maxSize)]] :
             keys \in {ks \in SUBSET BurstKeys(maxSize) : Cardinality(ks) > maxSize},
             pre \in SUBSET BurstKeys(maxSize)}

BurstInit ==
    /\ store = EmptyStore
    /\ accessOrder = << >>
    /\ config \in BurstConfigs
    /\ cleanupInterval = (config.cleanupInterval > 0)
    /\ totalAccesses = 0
    /\ totalHits = 0
    /\ memoryUsageBytes = 0
    /\ isDestroyed = FALSE
    /\ operationInProgress = FALSE
    /\ now = 0
    /\ clearIntervalCalls = 0
    /\ last = Result("new", "void", "", "", "")
    /\ call = Idle
    /\ burst \in Bursts(config.maxSize)
    /\ pending = NoPending
    /\ dup = NoDetector
    /\ db = NoPool

\* one of the set() calls made before the burst
PrefillBegin ==
    \E key \in burst.preTodo :
        /\ BeginSet(key, Val1, TtlUndefined)
        /\ burst' = [burst EXCEPT !.preTodo = @ \ {key}]
        /\ UNCHANGED << pending, dup, db >>

BurstBegin ==
    /\ burst.preTodo = {}
    /\ \E key \in burst.todo :
          /\ BeginSet(key, burst.value[key], TtlUndefined)
          /\ burst' = [burst EXCEPT !.todo = @ \ {key}]
          /\ UNCHANGED << pending, dup, db >>

BurstNext ==
    \/ PrefillBegin
    \/ BurstBegin
    \/ EvictStep
    \/ ReadPrior
    \/ WriteStep

SpecBurst == BurstInit /\ [][BurstNext]_vars

\* Calls of every method on a two-entry cache, set() statement by statement.
\* The methods contain no await and the timer callback is run by the event
\* loop, so another call starts only while no call is on the stack.
StepsInit == Init /\ config = Config(2, 12, FALSE)

\* the arguments of set(): those of SetInputs and one value that is larger
\* than the memory cap by itself
StepInputs == SetInputs \cup {<< KeyB, ValWide, TtlUndefined >>}

BeginStep ==
    /\ \E in \in StepInputs : BeginSet(in[1], in[2], in[3])
    /\ UNCHANGED << burst, pending, dup, db >>

StepsNext ==
    \/ BeginStep
    \/ EvictStep
    \/ ReadPrior
    \/ WriteStep
    \/ GetStep
    \/ HasStep
    \/ DeleteStep
    \/ ClearStep
    \/ TimerStep
    \/ ClockStep

SpecSteps == StepsInit /\ [][StepsNext]_vars

\* The calls that decide what ensureCapacity finds: set, get (which reorders
\* the LRU index), delete and clear, at one instant.  A call on the stack
\* keeps running: its next statement is executed.
CapacityNext ==
    \/ BeginStep
    \/ EvictStep
    \/ ReadPrior
    \/ WriteStep
    \/ GetStep
    \/ DeleteStep
    \/ ClearStep

SpecCapacity ==
    /\ StepsInit
    /\ [][CapacityNext]_vars
    /\ WF_vars(EvictStep)
    /\ WF_vars(ReadPrior)
    /\ WF_vars(WriteStep)

\* Calls on a two-entry cache whose entries may outlive a clock tick: set is
\* called with the ttl left out and with a ttl of exactly one tick.
LongLivedInputs ==
    (ValidRawKeys \X ValidValues \X {TtlNum(TickLength)})
      \cup {<< KeyA, Val1, TtlUndefined >>, << KeyB, Val2, TtlUndefined >>}

LongLivedSetStep ==
    /\ call.phase = "idle"
    /\ \E in \in LongLivedInputs : Set(in[1], in[2], in[3])
    /\ UNCHANGED << call, burst, pending, dup, db >>

LongLivedNext ==
    \/ LongLivedSetStep
    \/ GetStep
    \/ HasStep
    \/ DeleteStep
    \/ ClearStep
    \/ TimerStep
    \/ ClockStep

SpecLongLived == StepsInit /\ [][LongLivedNext]_vars

\* the same calls on an instance that is never destroyed and whose sweep
\* timer keeps firing: a callback that is due is run
SpecSweep == StepsInit /\ [][LongLivedNext]_vars /\ WF_vars(TimerStep)

(***************************************************************************)
(* withCache(cache, key, fetcher, ttl): an async function.  It runs up to  *)
(* `await fetcher()` when it is called and from there on when the promise  *)
(* of the fetcher settles; other calls on the cache run in between.        *)
(***************************************************************************)
\* variant: a miss while another call is fetching the key joins that fetch
\* and does not invoke a fetcher of its own
WithCacheLookupSingleFlight(c, key, ttl, got) ==
    IF got.ret = "throw"
    THEN [phase |-> "rejected", key |-> key, ttl |-> ttl, data |-> "", cached |-> FALSE,
          err |-> got.err, fetcherCalls |-> 0]
    ELSE IF got.ret = "value" /\ got.data # ValNull.id
    THEN [phase |-> "resolved", key |-> key, ttl |-> ttl, data |-> got.data, cached |-> TRUE,
          err |-> "", fetcherCalls |-> 0]
    ELSE [phase |-> "fetching", key |-> key, ttl |-> ttl, data |-> "", cached |-> FALSE,
          err |-> "",
          fetcherCalls |-> IF \E d \in Callers \ {c} :
                                pending[d].phase = "fetching" /\ pending[d].key = key
                           THEN 0 ELSE 1]

\* what withCache does with the result of cache.get(key): a throw of get
\* rejects the promise, a value other than null resolves it, null invokes
\* the fetcher
WithCacheLookup(c, key, ttl, got) ==
    IF got.ret = "throw"
    THEN [phase |-> "rejected", key |-> key, ttl |-> ttl, data |-> "", cached |-> FALSE,
          err |-> got.err, fetcherCalls |-> 0]
    ELSE IF got.ret = "value" /\ got.data # ValNull.id
    THEN [phase |-> "resolved", key |-> key, ttl |-> ttl, data |-> got.data, cached |-> TRUE,
          err |-> "", fetcherCalls |-> 0]
    ELSE [phase |-> "fetching", key |-> key, ttl |-> ttl, data |-> "", cached |-> FALSE,
          err |-> "", fetcherCalls |-> 1]

\* the call of withCache up to the await
withCache(c, key, ttl) ==
    /\ pending[c].phase # "fetching"
    /\ Get(key)
    /\ pending' = [pending EXCEPT ![c] = WithCacheLookup(c, key, ttl, last')]

\* the fetcher's promise is fulfilled with value: cache.set(key, data, ttl),
\* then the return; a throw of set rejects the promise of withCache
FetcherResolves(c, value) ==
    /\ pending[c].phase = "fetching"
    /\ Set(pending[c].key, value, pending[c].ttl)
    /\ pending' = [pending EXCEPT ![c] =
                     IF last'.ret = "throw"
                     THEN [@ EXCEPT !.phase = "rejected", !.err = last'.err]
                     ELSE [@ EXCEPT !.phase = "resolved", !.data = value.id]]

ErrFetcher == "fetcher failed"

\* variant: a failed fetch is remembered by storing undefined under the key
FetcherRejectsStoresUndefined(c) ==
    /\ pending[c].phase = "fetching"
    /\ Set(pending[c].key, ValUndefined, pending[c].ttl)
    /\ pending' = [pending EXCEPT ![c] = [@ EXCEPT !.phase = "rejected", !.err = ErrFetcher]]

\* the fetcher's promise is rejected: the await throws and withCache rejects
FetcherRejects(c) ==
    /\ pending[c].phase = "fetching"
    /\ pending' = [pending EXCEPT ![c] = [@ EXCEPT !.phase = "rejected", !.err = ErrFetcher]]
    /\ UNCHANGED << store, accessOrder, config, cleanupInterval, totalAccesses, totalHits,
                    memoryUsageBytes, isDestroyed, operationInProgress, now,
                    clearIntervalCalls, last >>

\* Calls of withCache by two callers on a two-entry cache, with the ttl left
\* out, zero, and one clock tick long, and fetchers that resolve to a value,
\* resolve to null, or fail; next to them delete(), the sweep and the clock.
WithCacheKeys == {KeyA, KeyB}
WithCacheTtls == {TtlUndefined, TtlNum(0), TtlNum(TickLength)}
FetchedValues == {Val1, ValNull}

WithCacheStep ==
    /\ call.phase = "idle"
    /\ \E c \in Callers, key \in WithCacheKeys, ttl \in WithCacheTtls :
           CanCount(key, MaxAccesses + 1) /\ withCache(c, key, ttl)
    /\ UNCHANGED << call, burst, dup, db >>

ResolveStep ==
    /\ call.phase = "idle"
    /\ \E c \in Callers, value \in FetchedValues : FetcherResolves(c, value)
    /\ UNCHANGED << call, burst, dup, db >>

RejectStep ==
    /\ call.phase = "idle"
    /\ \E c \in Callers : FetcherRejects(c)
    /\ UNCHANGED << call, burst, dup, db >>

WithCacheNext ==
    \/ WithCacheStep
    \/ ResolveStep
    \/ RejectStep
    \/ DeleteStep
    \/ TimerStep
    \/ ClockStep

SpecWithCache == StepsInit /\ [][WithCacheNext]_vars

(***************************************************************************)
(* getCacheHealth() on instances of three shapes: their counters start     *)
(* below, at and around the access threshold with half of the accesses     *)
(* hits, and set, get and delete calls move size, memory and hit rate      *)
(* across the thresholds.                                                  *)
(***************************************************************************)
\* a two-entry cache, a three-entry cache that two values fill to 9/10 and to
\* 10/10 of its memory, and a two-entry cache that one value fills to 14/15
HealthConfigs == {Config(2, 12, FALSE), Config(3, 10, FALSE), Config(2, 15, FALSE)}

\* << totalAccesses, totalHits >> at the start
HealthCounters ==
    {<< 0, 0 >>,
     << DegradedMinAccesses, DegradedMinAccesses \div 2 >>,
     << DegradedMinAccesses, (DegradedMinAccesses \div 2) - 1 >>,
     << DegradedMinAccesses + 1, (DegradedMinAccesses \div 2) + 1 >>}

HealthInit ==
    /\ store = EmptyStore
    /\ accessOrder = << >>
    /\ config \in HealthConfigs
    /\ cleanupInterval = (config.cleanupInterval > 0)
    /\ \E c \in HealthCounters : totalAccesses = c[1] /\ totalHits = c[2]
    /\ memoryUsageBytes = 0
    /\ isDestroyed = FALSE
    /\ operationInProgress = FALSE
    /\ now = 0
    /\ clearIntervalCalls = 0
    /\ last = Result("new", "void", "", "", "")
    /\ call = Idle
    /\ burst = NoBurst
    /\ pending = NoPending
    /\ dup = NoDetector
    /\ db = NoPool

HealthInputs == {KeyA, KeyB, KeyMailU} \X {Val1, Val2, ValNull, ValWide} \X {TtlUndefined}

HealthSetStep ==
    /\ call.phase = "idle"
    /\ \E in \in HealthInputs : Set(in[1], in[2], in[3])
    /\ UNCHANGED << call, burst, pending, dup, db >>

\* get() is explored from the access threshold on
HealthGetStep ==
    /\ call.phase = "idle"
    /\ totalAccesses >= DegradedMinAccesses
    /\ \E key \in {KeyA, KeyB} :
           CanCount(key, DegradedMinAccesses + MaxAccesses + 1) /\ Get(key)
    /\ UNCHANGED << call, burst, pending, dup, db >>

HealthStep ==
    /\ call.phase = "idle"
    /\ Health
    /\ UNCHANGED << call, burst, pending, dup, db >>

HealthNext ==
    \/ HealthSetStep
    \/ HealthGetStep
    \/ DeleteStep
    \/ HealthStep

SpecHealth == HealthInit /\ [][HealthNext]_vars

(***************************************************************************)
(* Raw keys that collide: two e-mail addresses, which sanitizeKey maps to  *)
(* the same placeholder, and a plain key.  Each address is written with a  *)
(* value of its own, so that the stored value tells which call wrote it;   *)
(* only the second address is read.                                        *)
(***************************************************************************)
CollideInputs ==
    {<< KeyMailU, Val1, TtlUndefined >>, << KeyMailV, Val2, TtlUndefined >>,
     << KeyA, Val1, TtlUndefined >>, << KeyA, Val2, TtlUndefined >>}
CollideReadKeys == {KeyMailV, KeyA}

CollideSetStep ==
    /\ call.phase = "idle"
    /\ \E in \in CollideInputs : Set(in[1], in[2], in[3])
    /\ UNCHANGED << call, burst, pending, dup, db >>

CollideGetStep ==
    /\ call.phase = "idle"
    /\ \E key \in CollideReadKeys : CanCount(key, MaxAccesses + 1) /\ Get(key)
    /\ UNCHANGED << call, burst, pending, dup, db >>

CollideNext ==
    \/ CollideSetStep
    \/ CollideGetStep
    \/ DeleteStep
    \/ ClockStep

SpecCollide == StepsInit /\ [][CollideNext]_vars

(***************************************************************************)
(* set() with every kind of accepted ttl on a two-entry cache: omitted,    *)
(* zero, and one clock tick, which is longer than the default.             *)
(***************************************************************************)
TtlInputs == {KeyA, KeyB} \X {Val1} \X {TtlUndefined, TtlNum(0), TtlNum(TickLength)}

TtlSetStep ==
    /\ call.phase = "idle"
    /\ \E in \in TtlInputs : Set(in[1], in[2], in[3])
    /\ UNCHANGED << call, burst, pending, dup, db >>

TtlNext ==
    \/ TtlSetStep
    \/ GetStep
    \/ HasStep
    \/ TimerStep
    \/ ClockStep

SpecTtl == StepsInit /\ [][TtlNext]_vars

(***************************************************************************)
(* DuplicateDetector.checkDuplicate on generalCache.  The method has no    *)
(* await: it runs from its call to its return with nothing in between      *)
(* but the passing of time.  It is modelled by its two cache accesses:     *)
(* generalCache.get, then the decision with generalCache.set.              *)
(***************************************************************************)
\* JSON.stringify({ count, firstSeen }): {"count":1,"firstSeen":0}
CounterValue(count, firstSeen) ==
    [kind |-> "json", id |-> [count |-> count, firstSeen |-> firstSeen],
     bytes |-> 23 + Len(NatToString(count)) + Len(NatToString(firstSeen))]

\* variant: only a count above maxSubmissions blocks
LimitReachedAbove(count) == count > dup.config.maxSubmissions

\* existing.count >= this.config.maxSubmissions
LimitReached(count) == count >= dup.config.maxSubmissions

\* variant: the catch block blocks the submission
FailClosed == DuplicateResult(TRUE, 0, 0, "error")

\* the catch block: fail open
FailOpen == DuplicateResult(FALSE, 0, 0, "error")

\* checkDuplicate(data, clientIP) up to const existing = generalCache.get(cacheKey)
checkDuplicateLookup(data, clientIP) ==
    /\ dup.phase = "idle"
    /\ IF ~dup.config.enabled
       THEN /\ dup' = [dup EXCEPT !.result = DuplicateResult(FALSE, 0, 0, "")]
            /\ UNCHANGED << store, accessOrder, config, cleanupInterval, totalAccesses,
                            totalHits, memoryUsageBytes, isDestroyed, operationInProgress,
                            now, clearIntervalCalls, last >>
       ELSE /\ Get(DuplicateKey(data, clientIP))
            /\ dup' = [dup EXCEPT
                         !.phase = IF last'.ret = "throw" THEN "idle" ELSE "looked",
                         !.key = DuplicateKey(data, clientIP),
                         !.existing = IF last'.ret = "value"
                                      THEN [found |-> TRUE, count |-> last'.data.count,
                                            firstSeen |-> last'.data.firstSeen]
                                      ELSE NoCounter,
                         !.result = IF last'.ret = "throw" THEN FailOpen ELSE NoResult]

\* the set() of checkDuplicate and the result of an allowed submission
StoreCounter(count, firstSeen) ==
    /\ Set(dup.key, CounterValue(count, firstSeen), TtlNum(dup.config.windowMs))
    /\ dup' = [dup EXCEPT
                 !.phase = "idle",
                 !.result = IF last'.ret = "throw" THEN FailOpen
                            ELSE DuplicateResult(FALSE, count, dup.config.windowMs, "")]

\* variant: the window still counts as open at ageMs = windowMs
WindowOpenAtItsEnd(ageMs) == ageMs <= dup.config.windowMs

\* ageMs < this.config.windowMs
WindowOpen(ageMs) == ageMs < dup.config.windowMs

\* checkDuplicate from const now = Date.now() to its return
checkDuplicateDecide ==
    /\ dup.phase = "looked"
    /\ LET existing == dup.existing
           ageMs == now - existing.firstSeen
       IN  IF existing.found
           THEN IF WindowOpen(ageMs)
                THEN IF LimitReached(existing.count)
                     THEN /\ dup' = [dup EXCEPT
                                       !.phase = "idle",
                                       !.result = DuplicateResult(TRUE, existing.count,
                                                                  dup.config.windowMs - ageMs,
                                                                  "rate_limit")]
                          /\ UNCHANGED << store, accessOrder, config, cleanupInterval,
                                          totalAccesses, totalHits, memoryUsageBytes,
                                          isDestroyed, operationInProgress, now,
                                          clearIntervalCalls, last >>
                     ELSE StoreCounter(existing.count + 1, existing.firstSeen)
                ELSE StoreCounter(1, now)
           ELSE StoreCounter(1, now)

\* a cache of two entries that holds the counters of both submissions
DetectorCacheConfig == Config(2, 100, FALSE)

\* one window of a clock tick and one longer; one and two submissions allowed
DetectorConfigs ==
    {DetectorConfig(TRUE, w, m) : w \in {TickLength, TickLength + 1}, m \in {1, 2}}
        \cup {DetectorConfig(FALSE, TickLength, 1)}

DetectorInitWith(cfgs) ==
    /\ store = EmptyStore
    /\ accessOrder = << >>
    /\ config = DetectorCacheConfig
    /\ cleanupInterval = (config.cleanupInterval > 0)
    /\ totalAccesses = 0
    /\ totalHits = 0
    /\ memoryUsageBytes = 0
    /\ isDestroyed = FALSE
    /\ operationInProgress = FALSE
    /\ now = 0
    /\ clearIntervalCalls = 0
    /\ last = Result("new", "void", "", "", "")
    /\ call = Idle
    /\ burst = NoBurst
    /\ pending = NoPending
    /\ \E cfg \in cfgs : dup = Detector(cfg)
    /\ db = NoPool

DetectorInit == DetectorInitWith(DetectorConfigs)

\* the calls explored: two more than the largest maxSubmissions
MaxChecks == MaxAccesses + 3

CheckLookupStep ==
    /\ \E sub \in Submissions :
          /\ dup.config.enabled => totalAccesses < MaxChecks
          /\ checkDuplicateLookup(sub[1], sub[2])
    /\ UNCHANGED << call, burst, pending, db >>

CheckDecideStep ==
    /\ checkDuplicateDecide
    /\ UNCHANGED << call, burst, pending, db >>

\* other users of generalCache, between the calls of checkDuplicate
OtherSetStep ==
    /\ dup.phase = "idle"
    /\ Set(KeyA, Val1, TtlUndefined)
    /\ UNCHANGED << call, burst, pending, dup, db >>

OtherClearStep ==
    /\ dup.phase = "idle"
    /\ ClearStep

OtherTimerStep ==
    /\ dup.phase = "idle"
    /\ TimerStep

DetectorNext ==
    \/ CheckLookupStep
    \/ CheckDecideStep
    \/ OtherSetStep
    \/ OtherClearStep
    \/ OtherTimerStep
    \/ ClockStep

SpecDetector == DetectorInit /\ [][DetectorNext]_vars

\* detectors whose window is longer than the longest ttl the cache accepts,
\* next to the others: every set() of theirs throws 'TTL too large'
FailOpenConfigs ==
    DetectorConfigs \cup {DetectorConfig(TRUE, MaxTtlMs + 1, m) : m \in {1, 2}}

SpecFailOpen == DetectorInitWith(FailOpenConfigs) /\ [][DetectorNext]_vars

(***************************************************************************)
(* DatabaseConnectionPool.  Every handler runs to completion; what a       *)
(* settled promise resumes runs as a microtask, before the next timer      *)
(* callback or caller.  Time is not measured: a scheduled timer may fire   *)
(* at any moment.                                                          *)
(***************************************************************************)
otherVars ==
    << store, accessOrder, config, cleanupInterval, totalAccesses, totalHits,
       memoryUsageBytes, isDestroyed, operationInProgress, now, clearIntervalCalls,
       last, call, burst, pending, dup >>

ErrNotConfigured == "Database not configured - Supabase environment variables missing"
ErrUnable == "Unable to acquire database connection from pool"
ErrConnectionTimeout == "Connection timeout: no connections available"

\* the clients initializePool creates: conn-0 .. conn-(n-1), none when
\* Supabase is not configured
Clients(configured, n) ==
    IF configured THEN [i \in 1..n |-> NatToString(i - 1)] ELSE << >>

\* a client that was not created by the pool
ForeignClient == << "x" >>

\* a settled promise whose continuation has not run yet
MicrotaskPending == \E c \in DOMAIN db.calls : db.calls[c].phase \in {"woken", "timedout"}

\* c can make a call: it has none in flight, holds no connection, and no
\* timer of an earlier call of c is still scheduled (c names the call, so
\* that every timer is told apart from those of later calls)
Free(c) ==
    /\ db.calls[c].phase \in {"none", "failed"}
    /\ ~db.calls[c].timeout
    /\ ~db.calls[c].interval

\* this.pool.pop(), then activeConnections.add(connection) and return, or
\* throw 'Unable to acquire ...' when pop() gave undefined; the catch block
\* rethrows
Acquire(c, viaWith) ==
    IF Len(db.pool) > 0
    THEN LET connection == db.pool[Len(db.pool)]
         IN  db' = [db EXCEPT
                      !.pool = SubSeq(db.pool, 1, Len(db.pool) - 1),
                      !.activeConnections = @ \cup {connection},
                      !.calls[c] = [NoDbCall EXCEPT !.phase = "holding",
                                                    !.conn = connection,
                                                    !.with = viaWith,
                                                    !.timeout = db.calls[c].timeout,
                                                    !.interval = db.calls[c].interval]]
    ELSE db' = [db EXCEPT
                  !.calls[c] = [NoDbCall EXCEPT !.phase = "failed",
                                                !.err = ErrUnable,
                                                !.timeout = db.calls[c].timeout,
                                                !.interval = db.calls[c].interval]]

\* getConnection() up to its return, its throw or its await
getConnection(c, viaWith) ==
    /\ Free(c)
    /\ IF ~db.configured
       THEN db' = [db EXCEPT !.calls[c] = [@ EXCEPT !.phase = "failed",
                                                    !.err = ErrNotConfigured,
                                                    !.conn = NoClient,
                                                    !.released = FALSE]]
       ELSE IF Len(db.pool) = 0
               /\ Cardinality(db.activeConnections) >= db.maxConnections
       THEN \* waitForConnection(): setTimeout and setInterval are scheduled
            db' = [db EXCEPT !.calls[c] = [@ EXCEPT !.phase = "waiting",
                                                    !.err = "",
                                                    !.conn = NoClient,
                                                    !.released = FALSE,
                                                    !.with = viaWith,
                                                    !.timeout = TRUE,
                                                    !.interval = TRUE]]
       ELSE Acquire(c, viaWith)
    /\ UNCHANGED otherVars

\* this.pool.length > 0
PoolHasIdle == Len(db.pool) > 0

\* the setInterval callback of waitForConnection
IntervalCallbackOfWait(c) ==
    /\ db.calls[c].interval
    /\ IF PoolHasIdle
       THEN db' = [db EXCEPT !.calls[c] = [@ EXCEPT
                                             !.timeout = FALSE,
                                             !.interval = FALSE,
                                             !.phase = IF @ = "waiting" THEN "woken" ELSE @]]
       ELSE UNCHANGED db
    /\ UNCHANGED otherVars

\* the setTimeout callback of waitForConnection: reject(new Error(...));
\* the callback does not call clearInterval, the interval stays scheduled
TimeoutCallbackOfWait(c) ==
    /\ db.calls[c].timeout
    /\ db' = [db EXCEPT !.calls[c] = [@ EXCEPT
                                        !.timeout = FALSE,
                                        !.phase = IF @ = "waiting" THEN "timedout" ELSE @]]
    /\ UNCHANGED otherVars

\* getConnection() after await this.waitForConnection()
ResumeGetConnection(c) ==
    /\ db.calls[c].phase \in {"woken", "timedout"}
    /\ IF db.calls[c].phase = "woken"
       THEN Acquire(c, db.calls[c].with)
       ELSE db' = [db EXCEPT !.calls[c] = [@ EXCEPT !.phase = "failed",
                                                    !.err = ErrConnectionTimeout,
                                                    !.with = FALSE]]
    /\ UNCHANGED otherVars

\* variant: every connection handed in goes back to the pool
IsActiveAlways(connection) == TRUE

\* this.activeConnections.has(connection)
IsActive(connection) == connection \in db.activeConnections

ErrOperation == "operation failed"

\* releaseConnection(connection), called by c.  outcome is what c's call of
\* withDbConnection then rejects with, "" when c called releaseConnection
\* itself or the operation resolved.  A release made while the operation of
\* c's withDbConnection is still running (inFinally FALSE) leaves that call
\* in progress: its finally block will release the connection once more.
releaseConnection(c, connection, outcome, inFinally) ==
    LET mine == db.calls[c].phase = "holding" /\ db.calls[c].conn = connection
        calls == IF mine /\ (inFinally \/ ~db.calls[c].with)
                 THEN [db.calls EXCEPT ![c] = [@ EXCEPT !.phase = "none",
                                                        !.with = FALSE,
                                                        !.err = outcome,
                                                        !.released = TRUE]]
                 ELSE IF mine
                 THEN [db.calls EXCEPT ![c] = [@ EXCEPT !.released = TRUE]]
                 ELSE db.calls
    IN  /\ IF IsActive(connection)
           THEN db' = [db EXCEPT
                         !.activeConnections = @ \ {connection},
                         !.pool = Append(@, connection),
                         !.calls = calls]
           ELSE db' = [db EXCEPT !.calls = calls]
        /\ UNCHANGED otherVars

\* withDbConnection: operation(connection) rejects; catch rethrows, finally
\* releases
OperationRejects(c) ==
    /\ db.calls[c].phase = "holding"
    /\ db.calls[c].with
    /\ releaseConnection(c, db.calls[c].conn, ErrOperation, TRUE)

\* withDbConnection: operation(connection) resolves; finally releases
OperationResolves(c) ==
    /\ db.calls[c].phase = "holding"
    /\ db.calls[c].with
    /\ releaseConnection(c, db.calls[c].conn, "", TRUE)

\* close(): this.pool.length = 0; this.activeConnections.clear()
close ==
    /\ ~db.closed
    /\ db' = [db EXCEPT !.pool = << >>, !.activeConnections = {}, !.closed = TRUE]
    /\ UNCHANGED otherVars

DbCallers == {"d1", "d2", "d3"}

\* pools of one and of two connections, and one without Supabase
PoolConfigs == {<< TRUE, 1 >>, << TRUE, 2 >>, << FALSE, 2 >>}

PoolInit ==
    /\ store = EmptyStore
    /\ accessOrder = << >>
    /\ config = Config(2, 12, FALSE)
    /\ cleanupInterval = (config.cleanupInterval > 0)
    /\ totalAccesses = 0
    /\ totalHits = 0
    /\ memoryUsageBytes = 0
    /\ isDestroyed = FALSE
    /\ operationInProgress = FALSE
    /\ now = 0
    /\ clearIntervalCalls = 0
    /\ last = Result("new", "void", "", "", "")
    /\ call = Idle
    /\ burst = NoBurst
    /\ pending = NoPending
    /\ dup = NoDetector
    /\ \E pc \in PoolConfigs :
          db = Pool(pc[1], pc[2], Clients(pc[1], pc[2]), DbCallers)

GetConnectionStep ==
    /\ ~MicrotaskPending
    /\ \E c \in DbCallers : getConnection(c, FALSE)

WithDbConnectionStep ==
    /\ ~MicrotaskPending
    /\ \E c \in DbCallers : getConnection(c, TRUE)

ResumeStep == \E c \in DbCallers : ResumeGetConnection(c)

IntervalStep ==
    /\ ~MicrotaskPending
    /\ \E c \in DbCallers : IntervalCallbackOfWait(c)

TimeoutStep ==
    /\ ~MicrotaskPending
    /\ \E c \in DbCallers : TimeoutCallbackOfWait(c)

\* a caller, or the operation of its withDbConnection, releases the
\* connection it was given, or one it does not hold: a second release, a
\* client of another pool
ReleaseStep ==
    /\ ~MicrotaskPending
    /\ \E c \in DbCallers :
          \E connection \in {db.calls[c].conn, ForeignClient} \ {NoClient} :
             releaseConnection(c, connection, "", FALSE)

OperationResolvesStep ==
    /\ ~MicrotaskPending
    /\ \E c \in DbCallers : OperationResolves(c)

OperationRejectsStep ==
    /\ ~MicrotaskPending
    /\ \E c \in DbCallers : OperationRejects(c)

CloseStep ==
    /\ ~MicrotaskPending
    /\ close

PoolNext ==
    \/ GetConnectionStep
    \/ WithDbConnectionStep
    \/ ResumeStep
    \/ IntervalStep
    \/ TimeoutStep
    \/ ReleaseStep
    \/ OperationResolvesStep
    \/ OperationRejectsStep
    \/ CloseStep

SpecPool == PoolInit /\ [][PoolNext]_vars

(***************************************************************************)
(* Properties.                                                             *)
(***************************************************************************)
Cap == config.maxSizeBytes
SanitizedOf(key) == KeyCheck[key].key
Age(k) == now - store[k].timestamp
Expired(k) == Age(k) > store[k].ttl

RECURSIVE TotalSize(_)
TotalSize(st) ==
    IF DOMAIN st = {} THEN 0
    ELSE LET k == CHOOSE x \in DOMAIN st : TRUE
         IN  st[k].sizeBytes + TotalSize([x \in (DOMAIN st) \ {k} |-> st[x]])

\* C1: after every completed operation memoryUsageBytes equals the sum of
\* sizeBytes over the entries in the store.
C1_MemoryIsSumOfSizes == memoryUsageBytes = TotalSize(store)

\* a set that evicted has completed and left entries of both sizes
C1_Witness ==
    /\ last.op = "set" /\ last.ret = "void" /\ last.evicted > 0
    /\ memoryUsageBytes = 10
    /\ Cardinality(DOMAIN store) = 2

\* C2: with maxSize >= 1 the store never holds more than maxSize entries.
C2_SizeWithinMaxEntries ==
    config.maxSize >= 1 => Cardinality(DOMAIN store) <= config.maxSize

\* a set on a full store has completed and the store is full again
C2_Witness ==
    /\ last.op = "set" /\ last.ret = "void" /\ last.evicted = 1
    /\ Cardinality(DOMAIN store) = config.maxSize
    /\ config.maxSize = 2

\* C3: the key set of accessOrder is exactly the key set of the store, and
\* accessOrder lists no key twice.
C3_OrderKeysAreStoreKeys ==
    /\ {accessOrder[i].key : i \in 1..Len(accessOrder)} = DOMAIN store
    /\ Len(accessOrder) = Cardinality(DOMAIN store)

\* a sweep has removed an expired entry and left a live one
C3_Witness ==
    /\ last.op = "sweep" /\ last.metric = "expired"
    /\ Cardinality(DOMAIN store) = 1
    /\ Len(accessOrder) = 1

\* C4: a get of a key whose entry is older than its ttl returns null, removes
\* the entry from store and accessOrder, lowers memoryUsageBytes by its
\* sizeBytes, and counts an access but no hit.
C4_ExpiredGetIsMiss ==
    [][\A key \in ValidRawKeys :
         LET k == SanitizedOf(key)
         IN  (/\ last'.op = "get"
              /\ k \in DOMAIN store
              /\ now - store[k].timestamp > store[k].ttl
              /\ Get(key))
             => /\ last'.op = "get"
                /\ last'.ret = "null"
                /\ DOMAIN store' = (DOMAIN store) \ {k}
                /\ Cardinality(DOMAIN store') = Cardinality(DOMAIN store) - 1
                /\ {accessOrder'[i].key : i \in 1..Len(accessOrder')} = (DOMAIN store) \ {k}
                /\ memoryUsageBytes' = memoryUsageBytes - store[k].sizeBytes
                /\ totalAccesses' = totalAccesses + 1
                /\ totalHits' = totalHits]_vars

\* a get has found its entry expired while another entry stays in the store
C4_Witness ==
    /\ last.op = "get" /\ last.ret = "null" /\ last.metric = "expired"
    /\ totalAccesses = 1 /\ totalHits = 0
    /\ Cardinality(DOMAIN store) = 1

ValidSetInputs == ValidRawKeys \X ValidValues \X ValidTtls
KeysOf(ord) == [i \in 1..Len(ord) |-> ord[i].key]
HeadKey == accessOrder[1].key

\* a get hit moves its key to the tail of accessOrder and leaves the others in order
GetHitMovesToTail ==
    \A key \in ValidRawKeys :
        LET k == SanitizedOf(key)
        IN  (last'.op = "get" /\ last'.ret = "value" /\ Get(key))
            => KeysOf(accessOrder') =
                 Append(SelectSeq(KeysOf(accessOrder), LAMBDA x : x # k), k)

\* C5 as stated: on a store holding maxSize entries with memoryUsageBytes
\* below the cap, a set of a key not in the store evicts exactly the head of
\* accessOrder, and a get hit moves its key to the tail; so with maxSize = 2,
\* set(a), set(b), get(a), set(c) leaves exactly {a, c}.
C5_Original ==
    [][/\ \A in \in ValidSetInputs :
             LET k == SanitizedOf(in[1])
             IN  (/\ last'.op = "set"
                  /\ Cardinality(DOMAIN store) = config.maxSize
                  /\ k \notin DOMAIN store
                  /\ memoryUsageBytes < Cap
                  /\ Set(in[1], in[2], in[3]))
                 => /\ DOMAIN store' = ((DOMAIN store) \ {HeadKey}) \cup {k}
                    /\ last'.evicted = 1
       /\ GetHitMovesToTail]_vars

\* C5 amended: the same, for a new entry that fits under the cap once the head
\* is removed (memoryUsageBytes - head.sizeBytes + newSize <= cap).
C5_EvictsExactlyTheHead ==
    [][/\ \A in \in ValidSetInputs :
             LET k == SanitizedOf(in[1])
             IN  (/\ last'.op = "set"
                  /\ Cardinality(DOMAIN store) = config.maxSize
                  /\ k \notin DOMAIN store
                  /\ Set(in[1], in[2], in[3])
                  /\ memoryUsageBytes - store[HeadKey].sizeBytes + store'[k].sizeBytes <= Cap)
                 => /\ DOMAIN store' = ((DOMAIN store) \ {HeadKey}) \cup {k}
                    /\ KeysOf(accessOrder') = Append(Tail(KeysOf(accessOrder)), k)
                    /\ last'.evicted = 1
       /\ GetHitMovesToTail]_vars

\* set(a), set(b), get(a), set(c) on a two-entry cache: the touched first key
\* and the new key remain, the set evicted once
C5_Witness ==
    /\ config.maxSize = 2
    /\ last.op = "set" /\ last.ret = "void" /\ last.evicted = 1
    /\ KeysOf(accessOrder) = << KeyA.s, EmailPlaceholder >>
    /\ store[KeyA.s].hitCount = 1
    /\ totalHits = 1

\* C6: accessOrder lists the stored keys in non-decreasing order of their
\* entries' lastAccessed, also after a set overwrote a stored key.
C6_OrderSortedByLastAccessed ==
    \A i, j \in 1..Len(accessOrder) :
        (i < j /\ accessOrder[i].key \in DOMAIN store /\ accessOrder[j].key \in DOMAIN store)
            => store[accessOrder[i].key].lastAccessed <= store[accessOrder[j].key].lastAccessed

\* C7: a valid set on a key that is already stored leaves the set of stored
\* keys unchanged and changes memoryUsageBytes by exactly newSize - oldSize.
C7_OverwriteInPlace ==
    [][\A in \in ValidSetInputs :
           LET k == SanitizedOf(in[1])
           IN  (last'.op = "set" /\ k \in DOMAIN store /\ Set(in[1], in[2], in[3]))
               => /\ DOMAIN store' = DOMAIN store
                  /\ memoryUsageBytes' =
                        memoryUsageBytes + store'[k].sizeBytes - store[k].sizeBytes]_vars

\* calls of set with an invalid key, an invalid value or an invalid ttl
InvalidSetCalls ==
    (InvalidRawKeys \X {Val1, ValCircular} \X {TtlUndefined, TtlNum(-1)})
      \cup ({KeyA, KeyMailU} \X InvalidValues \X {TtlUndefined, TtlNum(1)})
      \cup ({KeyA, KeyMailU} \X {Val1, Val2} \X InvalidTtls)

\* C8: a set with an invalid key, ttl or value raises, and a set that raises
\* leaves store, accessOrder, memoryUsageBytes, totalHits and totalAccesses
\* unchanged and evicts nothing.
C8_FailedSetChangesNothing ==
    /\ [](\A in \in InvalidSetCalls :
             LET out == SetOutcome(in[1], in[2], in[3])
             IN  /\ out.err # ""
                 /\ out.store = store
                 /\ out.accessOrder = accessOrder
                 /\ out.memoryUsageBytes = memoryUsageBytes
                 /\ out.evicted = 0)
    /\ [][\A in \in SetInputs :
             (last'.op = "set" /\ in \notin ValidSetInputs /\ Set(in[1], in[2], in[3]))
             => /\ last'.ret = "throw"
                /\ last'.evicted = 0
                /\ UNCHANGED << store, accessOrder, memoryUsageBytes, totalHits,
                                totalAccesses >>]_vars

\* a set has raised on a full two-entry store
C8_Witness ==
    /\ last.op = "set" /\ last.ret = "throw" /\ last.err = ErrTtl
    /\ config.maxSize = 2
    /\ Cardinality(DOMAIN store) = 2

StateButLast ==
    << store, accessOrder, config, cleanupInterval, totalAccesses, totalHits,
       memoryUsageBytes, isDestroyed, operationInProgress, now, clearIntervalCalls >>

InvalidKeySetInputs == {in \in SetInputs : in[1] \in InvalidRawKeys}

\* C9: with an invalid key, set raises in both modes; get, has and delete
\* raise under strictValidation and return null, false and false otherwise;
\* the cache state, totalAccesses included, is unchanged.
C9_InvalidKeyHandling ==
    /\ [](\A key \in InvalidRawKeys : KeyCheck[key].err # "")
    /\ [][/\ last'.op = "get" =>
               \A key \in InvalidRawKeys :
                   Get(key) => /\ UNCHANGED StateButLast
                               /\ last'.ret = IF config.strictValidation THEN "throw" ELSE "null"
          /\ last'.op = "has" =>
               \A key \in InvalidRawKeys :
                   Has(key) => /\ UNCHANGED StateButLast
                               /\ last'.ret = IF config.strictValidation THEN "throw" ELSE "false"
          /\ last'.op = "delete" =>
               \A key \in InvalidRawKeys :
                   Delete(key) => /\ UNCHANGED StateButLast
                                  /\ last'.ret = IF config.strictValidation THEN "throw" ELSE "false"
          /\ last'.op = "set" =>
               \A in \in InvalidKeySetInputs :
                   Set(in[1], in[2], in[3]) => /\ UNCHANGED StateButLast
                                               /\ last'.ret = "throw"]_vars

\* a get with an invalid key has returned the sentinel on a non-empty cache
\* that has counted no access
C9_Witness ==
    /\ ~config.strictValidation
    /\ last.op = "get" /\ last.ret = "null" /\ last.metric = "error"
    /\ totalAccesses = 0
    /\ Cardinality(DOMAIN store) > 0

\* C10: destroy() on a destroyed instance returns without changing any state;
\* the timer handle is cleared at most once and never set again; the first
\* destroy() leaves the store empty and memoryUsageBytes 0.
C10_DestroyIdempotent ==
    /\ [](clearIntervalCalls <= 1)
    /\ [](isDestroyed => ~cleanupInterval)
    /\ [][(last'.op = "destroy" /\ Destroy) =>
            /\ last'.ret = "void"
            /\ isDestroyed'
            /\ isDestroyed => UNCHANGED StateButLast
            /\ ~isDestroyed => /\ DOMAIN store' = {}
                               /\ accessOrder' = << >>
                               /\ memoryUsageBytes' = 0]_vars

\* destroy() has been called on an instance that was destroyed before and
\* has served a get since
C10_Witness ==
    /\ isDestroyed
    /\ last.op = "destroy"
    /\ totalAccesses = 1
    /\ clearIntervalCalls = 1
    /\ ~cleanupInterval

\* C11: on a destroyed instance set stores nothing (the store stays empty and
\* memoryUsageBytes stays 0), get returns null, has and delete return false.
C11_DestroyedIsInert ==
    /\ isDestroyed => (DOMAIN store = {} /\ memoryUsageBytes = 0)
    /\ (isDestroyed /\ last.op = "get") => last.ret \in {"null", "throw"}
    /\ (isDestroyed /\ last.op \in {"has", "delete"}) => last.ret \in {"false", "throw"}

\* C12: once destroy() has run, a timer tick (also one that was already due)
\* changes no entry, no counter and no memory total, and the timer handle
\* stays cleared for good.
C12_NoSweepAfterDestroy ==
    /\ [][(isDestroyed /\ last'.op = "sweep" /\ IntervalCallback)
            => UNCHANGED << store, accessOrder, memoryUsageBytes, totalAccesses, totalHits >>]_vars
    /\ [][isDestroyed => (isDestroyed' /\ ~cleanupInterval')]_vars

\* a tick has run on a destroyed instance that holds an expired entry
C12_Witness ==
    /\ isDestroyed
    /\ last.op = "sweep"
    /\ \E k \in DOMAIN store : IsExpired(store[k], now)

BurstDone == burst.value # << >> /\ burst.todo = {} /\ call.phase = "idle"

RECURSIVE BurstSize(_)
BurstSize(keys) ==
    IF keys = {} THEN 0
    ELSE LET k == CHOOSE x \in keys : TRUE
         IN  estimateSize(burst.value[k].bytes) + BurstSize(keys \ {k})

\* every maxSize of the burst's entries fit under the memory cap together
BurstFits ==
    \A keys \in SUBSET DOMAIN burst.value :
        Cardinality(keys) = config.maxSize => BurstSize(keys) <= Cap

\* no key of the burst was set before the burst
FreshBurst ==
    {SanitizedOf(key) : key \in burst.pre} \cap {SanitizedOf(key) : key \in DOMAIN burst.value} = {}

\* C13: after N set calls with pairwise distinct sanitized keys, in any
\* order, on a cache with maxSize = M < N and no expiry in between,
\* store.size is M and memoryUsageBytes is at most the memory cap.
C13_Original ==
    BurstDone => (StoreSize(store) = config.maxSize /\ memoryUsageBytes <= Cap)

\* the same for the bursts of which every M entries fit under the memory
\* cap together
FittingBurstFillsToMaxSize ==
    (BurstDone /\ BurstFits) => (StoreSize(store) = config.maxSize /\ memoryUsageBytes <= Cap)

\* the same for the fitting bursts none of whose keys was stored before:
\* no set of the burst is an overwrite
C13_BurstFillsToMaxSize ==
    (BurstDone /\ BurstFits /\ FreshBurst)
        => (StoreSize(store) = config.maxSize /\ memoryUsageBytes <= Cap)

\* a burst of three has ended on a two-entry cache, with evictions, its
\* entries of unequal size
C13_Witness ==
    /\ BurstDone /\ BurstFits /\ FreshBurst
    /\ config.maxSize = 2
    /\ Cardinality(DOMAIN burst.value) = 3
    /\ last.evicted = 1
    /\ \E k \in DOMAIN store : store[k].sizeBytes = estimateSize(Val2.bytes)

\* a fitting burst of five on a four-entry cache that held three of its
\* keys has ended with three entries: its last set was an overwrite
C13_OverwriteInBurst ==
    /\ BurstDone /\ BurstFits
    /\ config.maxSize = 4
    /\ Cardinality(burst.pre) = 3
    /\ burst.pre \subseteq DOMAIN burst.value
    /\ StoreSize(store) = 3
    /\ last.evicted = 1

\* C14: from a set's capacity check to its write, store, LRU index, memory
\* total and hit counters change only by that set's own evictions and write:
\* no get, has, delete, clear or sweep cycle takes a step in between.
C14_SetIsOneCriticalSection ==
    [][call.phase # "idle"
         => \/ EvictStep
            \/ ReadPrior
            \/ WriteStep
            \/ UNCHANGED << store, accessOrder, memoryUsageBytes, totalAccesses, totalHits,
                            cleanupInterval, isDestroyed, last, call >>]_vars

\* a set that overwrites a stored key has evicted the other entry and has
\* read its prior entry, but has not written yet
C14_Witness ==
    /\ call.phase = "write"
    /\ call.evicted = 1
    /\ call.memoryDelta # call.sizeBytes
    /\ StoreHas(store, call.key)

\* C15: when every call runs to completion before the next one starts, no
\* call raises 'Concurrent cache operation detected', and operationInProgress
\* is false after every call, also after one that threw.
C15_NoConcurrentOperationError ==
    /\ ~operationInProgress
    /\ last.err # ErrConcurrent

\* a set has thrown on a two-entry cache that served a get hit before and
\* holds one entry
C15_Witness ==
    /\ last.op = "set" /\ last.ret = "throw"
    /\ totalHits > 0
    /\ StoreSize(store) = 1
    /\ config.maxSize = 2

\* C16: the loop of ensureCapacity ends in every reachable state for every
\* new entry size: an iteration always finds an entry to evict and removes
\* exactly one; for an entry larger than the memory cap by itself the loop
\* is left on the empty store and the set stores the entry.
C16_EnsureCapacityTerminates ==
    /\ []((call.phase = "capacity" /\ LoopContinues(call.sizeBytes))
            => (accessOrder # << >> /\ StoreHas(store, accessOrder[1].key)))
    /\ [][EvictStep => StoreSize(store') = StoreSize(store) - 1]_vars
    /\ [][(call.sizeBytes > Cap /\ ReadPrior) => StoreSize(store) = 0]_vars
    /\ [][(call.sizeBytes > Cap /\ WriteStep)
            => /\ DOMAIN store' = {call.key}
               /\ memoryUsageBytes' = call.sizeBytes
               /\ last'.ret = "void"]_vars
    /\ (call.phase = "capacity") ~> (call.phase = "idle")

\* an entry larger than the memory cap has been stored after both entries of
\* a full cache were evicted for it
C16_Witness ==
    /\ last.op = "set" /\ last.ret = "void" /\ last.evicted = 2
    /\ call.phase = "idle"
    /\ memoryUsageBytes > Cap
    /\ StoreSize(store) = 1

\* C17: a get with a valid key adds 1 to totalAccesses; on an absent or
\* expired key it leaves totalHits unchanged and returns null; on a stored
\* live key it adds 1 to totalHits and to the entry's hitCount, sets its
\* lastAccessed to now, moves the key to the tail of accessOrder and returns
\* the stored value.
C17_GetCounters ==
    [][last'.op = "get" =>
         \A key \in ValidRawKeys :
             LET k == SanitizedOf(key)
             IN  Get(key) =>
                   /\ totalAccesses' = totalAccesses + 1
                   /\ IF k \notin DOMAIN store \/ Expired(k)
                      THEN /\ totalHits' = totalHits
                           /\ last'.ret = "null"
                      ELSE /\ totalHits' = totalHits + 1
                           /\ DOMAIN store' = DOMAIN store
                           /\ store'[k] = [store[k] EXCEPT !.hitCount = @ + 1,
                                                           !.lastAccessed = now]
                           /\ \A x \in (DOMAIN store) \ {k} : store'[x] = store[x]
                           /\ KeysOf(accessOrder') =
                                Append(SelectSeq(KeysOf(accessOrder), LAMBDA x : x # k), k)
                           /\ accessOrder'[Len(accessOrder')].at = now
                           /\ memoryUsageBytes' = memoryUsageBytes
                           /\ last'.ret = "value"
                           /\ last'.data = store[k].data]_vars

\* a get hit, one tick after the entry was written, has refreshed the entry
\* and made it the tail of a two-entry LRU order
C17_Witness ==
    /\ last.op = "get" /\ last.ret = "value"
    /\ totalAccesses = 1 /\ totalHits = 1
    /\ Len(accessOrder) = 2
    /\ LET e == store[accessOrder[2].key]
       IN  /\ e.hitCount = 1
           /\ e.lastAccessed = now
           /\ e.timestamp < now
           /\ last.data = e.data
    /\ store[accessOrder[1].key].data # last.data

\* C18: has(k) leaves totalHits, totalAccesses, every entry's hitCount and
\* lastAccessed and the LRU order of the other keys unchanged; it changes
\* state only by removing k, with its memory, when k is stored and expired,
\* and then returns false.
C18_HasFrame ==
    [][last'.op = "has" =>
         \A key \in ProbeKeys :
             Has(key) =>
               /\ totalHits' = totalHits
               /\ totalAccesses' = totalAccesses
               /\ IF KeyCheck[key].err = "" /\ SanitizedOf(key) \in DOMAIN store
                     /\ Expired(SanitizedOf(key))
                  THEN /\ store' = StoreDelete(store, SanitizedOf(key))
                       /\ accessOrder' =
                            SelectSeq(accessOrder, LAMBDA e : e.key # SanitizedOf(key))
                       /\ memoryUsageBytes' =
                            memoryUsageBytes - store[SanitizedOf(key)].sizeBytes
                       /\ last'.ret = "false"
                  ELSE /\ store' = store
                       /\ accessOrder' = accessOrder
                       /\ memoryUsageBytes' = memoryUsageBytes]_vars

\* has() has returned false, one tick after the writes, on a cache that
\* holds one live entry with a hit
C18_Witness ==
    /\ last.op = "has" /\ last.ret = "false"
    /\ StoreSize(store) = 1
    /\ memoryUsageBytes < Cap
    /\ totalHits = 1
    /\ \E k \in DOMAIN store : store[k].hitCount = 1 /\ store[k].timestamp < now

\* C19: delete(k) returns true exactly when the sanitized key is stored,
\* expired or not; it then removes the key from store and accessOrder and
\* lowers memoryUsageBytes by the entry's sizeBytes, leaving the other
\* entries, their order and the hit counters unchanged; for an absent key it
\* changes nothing and returns false.
C19_DeleteEffect ==
    [][last'.op = "delete" =>
         \A key \in ValidRawKeys :
             LET k == SanitizedOf(key)
             IN  Delete(key) =>
                   /\ totalHits' = totalHits
                   /\ totalAccesses' = totalAccesses
                   /\ IF k \in DOMAIN store
                      THEN /\ last'.ret = "true"
                           /\ store' = StoreDelete(store, k)
                           /\ accessOrder' = SelectSeq(accessOrder, LAMBDA e : e.key # k)
                           /\ memoryUsageBytes' = memoryUsageBytes - store[k].sizeBytes
                      ELSE /\ last'.ret = "false"
                           /\ store' = store
                           /\ accessOrder' = accessOrder
                           /\ memoryUsageBytes' = memoryUsageBytes]_vars

\* delete() has returned true and left behind one entry that is expired and
\* has a hit
C19_Witness ==
    /\ last.op = "delete" /\ last.ret = "true"
    /\ StoreSize(store) = 1
    /\ totalHits = 1
    /\ \E k \in DOMAIN store : store[k].hitCount = 1 /\ Expired(k)

\* C20: clear(), from any state, leaves store and accessOrder empty and
\* memoryUsageBytes, totalHits and totalAccesses 0, and neither clears nor
\* sets the sweep timer.
C20_ClearResetsAll ==
    [][(last'.op = "clear" /\ Clear)
         => /\ DOMAIN store' = {}
            /\ accessOrder' = << >>
            /\ memoryUsageBytes' = 0
            /\ totalHits' = 0
            /\ totalAccesses' = 0
            /\ cleanupInterval' = cleanupInterval
            /\ clearIntervalCalls' = clearIntervalCalls
            /\ isDestroyed' = isDestroyed
            /\ last'.ret = "void"]_vars

\* clear() has run on a live instance after the clock moved; the timer is
\* still armed
C20_Witness ==
    /\ last.op = "clear"
    /\ now > 0
    /\ cleanupInterval /\ ~isDestroyed
    /\ DOMAIN store = {} /\ totalAccesses = 0

\* numerator and denominator of a ratio that lies in [0, 1]
InUnitInterval(r) == r.den > 0 /\ 0 <= r.num /\ r.num <= r.den

\* C21: in every reachable state 0 <= totalHits <= totalAccesses; getStats
\* reports hitRate = totalHits / totalAccesses when totalAccesses > 0 and 0
\* when totalAccesses = 0, so hitRate lies in [0, 1].
C21_HitRateInUnitInterval ==
    /\ 0 <= totalHits
    /\ totalHits <= totalAccesses
    /\ getStats.totalHits = totalHits
    /\ getStats.totalAccesses = totalAccesses
    /\ totalAccesses > 0 =>
         getStats.hitRate.num * totalAccesses = totalHits * getStats.hitRate.den
    /\ totalAccesses = 0 => getStats.hitRate.num = 0
    /\ InUnitInterval(getStats.hitRate)

\* a get has hit, and the snapshot reports a positive rate
C21_Witness ==
    /\ totalAccesses > 0
    /\ totalHits > 0
    /\ last.op = "get"
    /\ getStats.hitRate.num = totalHits

\* C22: a sweep cycle removes, in one step, exactly the entries whose age
\* exceeds their ttl at the time of the cycle and lowers memoryUsageBytes by
\* their aggregate sizeBytes; every live entry, the relative LRU order of the
\* live entries, totalHits and totalAccesses are unchanged.
C22_SweepEffect ==
    [][(last'.op = "sweep" /\ ~isDestroyed /\ TimerStep) =>
         /\ DOMAIN store' = {k \in DOMAIN store : ~Expired(k)}
         /\ \A k \in DOMAIN store' : store'[k] = store[k]
         /\ memoryUsageBytes' = memoryUsageBytes - (TotalSize(store) - TotalSize(store'))
         /\ accessOrder' = SelectSeq(accessOrder, LAMBDA e : e.key \in DOMAIN store')
         /\ totalHits' = totalHits
         /\ totalAccesses' = totalAccesses]_vars

\* a sweep has removed an expired entry and kept an entry written a tick
\* earlier that is still live
C22_Witness ==
    /\ last.op = "sweep" /\ last.metric = "expired"
    /\ ~isDestroyed
    /\ \E k \in DOMAIN store : store[k].timestamp < now /\ ~Expired(k)
    /\ memoryUsageBytes > 0

\* the entry under the sanitized form of key is stored and not expired
Live(key) == SanitizedOf(key) \in DOMAIN store /\ ~Expired(SanitizedOf(key))

\* what a settled fetch leaves: the value stored under the key with the given
\* ttl, or with the default ttl when none was given, live, and returned with
\* cached = false after one invocation of the fetcher
FetchIsStored(c) ==
    \A value \in FetchedValues :
        FetcherResolves(c, value) =>
          LET k == SanitizedOf(pending[c].key)
          IN  /\ pending'[c].phase = "resolved"
              /\ pending'[c].cached = FALSE
              /\ pending'[c].data = value.id
              /\ pending'[c].fetcherCalls = 1
              /\ k \in DOMAIN store'
              /\ store'[k].data = value.id
              /\ store'[k].ttl = IF pending[c].ttl.kind = "undefined"
                                 THEN config.defaultTtl
                                 ELSE pending[c].ttl.n
              /\ ~IsExpired(store'[k], now)

\* C24: a live entry is returned with cached = true without a call of the
\* fetcher; otherwise the fetcher is invoked once and its result is stored
\* under the key with the given or default ttl and returned with
\* cached = false.
C24_Original ==
    [][/\ WithCacheStep =>
            \A c \in Callers, key \in WithCacheKeys, ttl \in WithCacheTtls :
                withCache(c, key, ttl) =>
                  IF Live(key)
                  THEN /\ pending'[c].phase = "resolved"
                       /\ pending'[c].cached
                       /\ pending'[c].data = store[SanitizedOf(key)].data
                       /\ pending'[c].fetcherCalls = 0
                  ELSE /\ pending'[c].phase = "fetching"
                       /\ pending'[c].fetcherCalls = 1
       /\ ResolveStep => \A c \in Callers : FetchIsStored(c)]_vars

\* the same with a live entry holding null taken for a miss, as the test
\* cached !== null of withCache takes it: a live entry whose value is not
\* null is returned with cached = true without a call of the fetcher; when
\* the key has no live entry, or a live entry holding null, the fetcher is
\* invoked once and its result is stored under the key with the given or
\* default ttl and returned with cached = false.
C24_WithCacheHitOrFetch ==
    [][/\ WithCacheStep =>
            \A c \in Callers, key \in WithCacheKeys, ttl \in WithCacheTtls :
                withCache(c, key, ttl) =>
                  IF Live(key) /\ store[SanitizedOf(key)].data # ValNull.id
                  THEN /\ pending'[c].phase = "resolved"
                       /\ pending'[c].cached
                       /\ pending'[c].data = store[SanitizedOf(key)].data
                       /\ pending'[c].fetcherCalls = 0
                  ELSE /\ pending'[c].phase = "fetching"
                       /\ pending'[c].fetcherCalls = 1
       /\ ResolveStep => \A c \in Callers : FetchIsStored(c)]_vars

\* one caller has fetched and stored a value, and the next call on the key
\* has returned it with cached = true without invoking its fetcher
C24_Witness ==
    /\ pending["c1"].phase = "resolved" /\ ~pending["c1"].cached
    /\ pending["c1"].fetcherCalls = 1
    /\ pending["c2"].phase = "resolved" /\ pending["c2"].cached
    /\ pending["c2"].fetcherCalls = 0
    /\ pending["c2"].key = pending["c1"].key
    /\ pending["c2"].data = pending["c1"].data
    /\ last.op = "get" /\ last.ret = "value"

\* the three things a cached value lives in
Cached == << store, accessOrder, memoryUsageBytes >>

\* the callers whose call this step has made, with a fetch as the result
Fetching(c) == pending'[c].phase = "fetching" /\ pending[c] # pending'[c]

\* C25 as stated: a call whose fetcher fails rejects with the fetcher's error
\* and leaves store, LRU index and memoryUsageBytes as they were before the
\* call, with no live entry under the key.  The fetcher fails or not
\* whatever the lookup did, so both steps of such a call are held to it.
C25_Original ==
    [][/\ WithCacheStep => \A c \in Callers : Fetching(c) => UNCHANGED Cached
       /\ RejectStep =>
            \A c \in Callers :
                FetcherRejects(c) =>
                  /\ pending'[c].phase = "rejected"
                  /\ pending'[c].err = ErrFetcher
                  /\ UNCHANGED Cached]_vars

\* C25, amended: a call whose fetcher fails rejects with the fetcher's error
\* and caches nothing.  The failure leaves store, LRU index, memory and
\* counters unchanged; the lookup the call began with changed them only as
\* get(key) does: an expired entry under the key is removed with its memory,
\* a stored null is counted as a hit, anything else is left alone; after it
\* the key is absent or holds null, so a get returns null.
C25_FailedFetchCachesNothing ==
    [][/\ WithCacheStep =>
            \A c \in Callers :
                Fetching(c) =>
                  LET k == SanitizedOf(pending'[c].key)
                  IN  /\ IF k \in DOMAIN store /\ Expired(k)
                         THEN /\ store' = StoreDelete(store, k)
                              /\ accessOrder' = OrderDelete(accessOrder, k)
                              /\ memoryUsageBytes' = memoryUsageBytes - store[k].sizeBytes
                         ELSE IF k \in DOMAIN store
                         THEN /\ store[k].data = ValNull.id
                              /\ store' = [store EXCEPT ![k] = HitEntry(@, now)]
                              /\ KeysOf(accessOrder') =
                                   Append(SelectSeq(KeysOf(accessOrder), LAMBDA x : x # k), k)
                              /\ memoryUsageBytes' = memoryUsageBytes
                         ELSE UNCHANGED Cached
                      /\ k \in DOMAIN store' => store'[k].data = ValNull.id
       /\ RejectStep =>
            \A c \in Callers :
                FetcherRejects(c) =>
                  /\ pending'[c].phase = "rejected"
                  /\ pending'[c].err = ErrFetcher
                  /\ pending'[c].fetcherCalls = 1
                  /\ UNCHANGED Cached
                  /\ UNCHANGED << totalHits, totalAccesses >>]_vars

\* a call has found an expired entry under its key, its fetcher has failed,
\* and the key is not stored
C25_Witness ==
    \E c \in Callers :
        /\ pending[c].phase = "rejected"
        /\ pending[c].err = ErrFetcher
        /\ last.op = "get" /\ last.metric = "expired"
        /\ SanitizedOf(pending[c].key) \notin DOMAIN store
        /\ now > 0

\* the status the claim assigns to the state
HealthClass ==
    IF memoryUsageBytes >= config.maxSizeBytes \/ StoreSize(store) >= config.maxSize
    THEN "unhealthy"
    ELSE IF \/ 2 * totalHits < totalAccesses /\ totalAccesses > 100
            \/ 10 * memoryUsageBytes > 9 * config.maxSizeBytes
    THEN "degraded"
    ELSE "healthy"

\* C26: the health status is 'unhealthy' when memoryUsage >= maxMemory or
\* size >= maxSize; otherwise 'degraded' when hitRate < 0.5 with
\* totalAccesses > 100, or memoryUsage / maxMemory > 0.9; otherwise 'healthy'.
\* An unhealthy condition overrides a degraded one, and a cache filled to
\* exactly maxSize entries is reported unhealthy.
C26_HealthStatus ==
    [][HealthStep =>
         /\ last'.ret = HealthClass
         /\ StoreSize(store) = config.maxSize => last'.ret = "unhealthy"
         /\ last'.ret = "healthy" <=> getCacheHealth(getStats).issues = << >>]_vars

\* a cache with a low hit rate after more than 100 accesses, filled to
\* exactly maxSize entries that take less than 9/10 of the memory, has been
\* reported unhealthy
C26_Witness ==
    /\ last.op = "health" /\ last.ret = "unhealthy"
    /\ StoreSize(store) = config.maxSize
    /\ 10 * memoryUsageBytes < 9 * config.maxSizeBytes
    /\ totalAccesses > DegradedMinAccesses
    /\ 2 * totalHits < totalAccesses
    /\ Len(getCacheHealth(getStats).issues) = 2

\* C27: set(k, v) followed by get(k), with no call in between and before the
\* ttl has elapsed, returns v, whatever the cache held before, a full store
\* included.  A set that returns leaves v under the sanitized key, unread and
\* live; a get that follows a set, at once or after the clock has moved,
\* returns what such an entry holds.
C27_RoundTrip ==
    [][/\ (last'.op = "set" /\ last'.ret = "void" /\ LongLivedSetStep) =>
            \A in \in LongLivedInputs :
                Set(in[1], in[2], in[3]) =>
                  LET k == SanitizedOf(in[1])
                  IN  /\ k \in DOMAIN store'
                      /\ store'[k].data = in[2].id
                      /\ store'[k].hitCount = 0
                      /\ ~IsExpired(store'[k], now)
       /\ (last.op = "set" /\ last.ret = "void" /\ GetStep) =>
            \A key \in ValidRawKeys :
                (Get(key) /\ Live(key) /\ store[SanitizedOf(key)].hitCount = 0) =>
                  /\ last'.ret = "value"
                  /\ last'.data = store[SanitizedOf(key)].data]_vars

\* a get has returned, at the last instant of its ttl, the value a set wrote
\* one tick earlier, and the store is full
C27_Witness ==
    /\ last.op = "get" /\ last.ret = "value"
    /\ StoreSize(store) = config.maxSize
    /\ \E k \in DOMAIN store :
         /\ store[k].data = last.data
         /\ store[k].hitCount = 1
         /\ store[k].timestamp < now
         /\ now - store[k].timestamp = store[k].ttl
         /\ accessOrder[Len(accessOrder)].key = k

\* sanitizeKey applied to the raw keys of the colliding calls
Sanitized == [key \in {KeyA, KeyMailU, KeyMailV} |-> sanitizeKey(key.s)]

\* C28: entries are addressed by the sanitized key only.  For valid raw keys
\* k1 and k2, a get(k2) that directly follows set(k1, v) reads the entry that
\* set wrote exactly when sanitize(k1) = sanitize(k2): the set writes v under
\* sanitize(k1) and leaves every other stored entry as it was or evicts it,
\* and the get returns what is stored under sanitize(k2).  Two raw keys that
\* sanitize identically read and overwrite the same entry.
C28_AddressedBySanitizedKey ==
    [][/\ (last'.op = "set" /\ last'.ret = "void" /\ CollideSetStep) =>
            \A in \in CollideInputs :
                Set(in[1], in[2], in[3]) =>
                  \A k2 \in DOMAIN Sanitized :
                      IF Sanitized[k2] = Sanitized[in[1]]
                      THEN /\ Sanitized[k2] \in DOMAIN store'
                           /\ store'[Sanitized[k2]].data = in[2].id
                           /\ store'[Sanitized[k2]].hitCount = 0
                           /\ Sanitized[k2] \in DOMAIN store =>
                                StoreSize(store') <= StoreSize(store)
                      ELSE Sanitized[k2] \in DOMAIN store' =>
                             /\ Sanitized[k2] \in DOMAIN store
                             /\ store'[Sanitized[k2]] = store[Sanitized[k2]]
       /\ (last.op = "set" /\ last.ret = "void" /\ CollideGetStep) =>
            \A k2 \in CollideReadKeys :
                Get(k2) =>
                  IF Sanitized[k2] \in DOMAIN store
                     /\ ~IsExpired(store[Sanitized[k2]], now)
                  THEN last'.ret = "value" /\ last'.data = store[Sanitized[k2]].data
                  ELSE last'.ret = "null"
       /\ DOMAIN store' \subseteq {Sanitized[k] : k \in DOMAIN Sanitized}]_vars

\* get of the second address has returned the value that only the set of the
\* first address writes, while the plain key holds an unread entry; the two
\* addresses are different raw keys with one sanitized form
C28_Witness ==
    /\ KeyMailU # KeyMailV
    /\ Sanitized[KeyMailU] = Sanitized[KeyMailV]
    /\ Sanitized[KeyA] # Sanitized[KeyMailV]
    /\ last.op = "get" /\ last.ret = "value" /\ last.data = Val1.id
    /\ Sanitized[KeyMailV] \in DOMAIN store
    /\ store[Sanitized[KeyMailV]].hitCount = 1
    /\ store[Sanitized[KeyMailV]].data = Val1.id
    /\ Sanitized[KeyA] \in DOMAIN store
    /\ store[Sanitized[KeyA]].hitCount = 0

\* C29: an entry stored by set(k, v, ttl) with an accepted ttl carries
\* exactly that ttl and is a miss once its age exceeds it; the default ttl
\* is used only when the argument is omitted.
C29_EntryCarriesGivenTtl ==
    [][/\ (last'.op = "set" /\ last'.ret = "void" /\ TtlSetStep) =>
            \A in \in TtlInputs :
                Set(in[1], in[2], in[3]) =>
                  /\ validateTTL(in[3]) = ""
                  /\ store'[SanitizedOf(in[1])].ttl =
                       IF in[3].kind = "undefined" THEN config.defaultTtl ELSE in[3].n
       /\ (last'.op = "get" /\ GetStep) =>
            \A key \in ValidRawKeys :
                (Get(key) /\ SanitizedOf(key) \in DOMAIN store) =>
                  (last'.ret = "null" <=> Age(SanitizedOf(key)) > store[SanitizedOf(key)].ttl)]_vars

\* the counter that checkDuplicate read is still in its window when the
\* call decides
InWindow == dup.existing.found /\ now - dup.existing.firstSeen < dup.config.windowMs

\* the counter stored under the key of the call on the stack
StoredCounter(st) == st[SanitizedOf(dup.key)].data

\* C30: for an enabled detector and one (data, clientIP): a call that finds
\* no counter is the first and returns isDuplicate = false with
\* submissionCount 1, storing count 1 and firstSeen = now; a call that finds
\* the counter in the cache with now - firstSeen < windowMs and a count
\* below maxSubmissions returns isDuplicate = false with the next
\* submissionCount and stores it with the same firstSeen; one that finds the
\* count at maxSubmissions returns isDuplicate = true with reason
\* 'rate_limit' and submissionCount = maxSubmissions and leaves the stored
\* count and firstSeen as they were; the stored count never exceeds
\* maxSubmissions
C30_CountsThenBlocks ==
    [][checkDuplicateDecide =>
         LET count == dup.existing.count
             max == dup.config.maxSubmissions
             k == SanitizedOf(dup.key)
         IN  /\ ~dup.existing.found =>
                  /\ dup'.result = DuplicateResult(FALSE, 1, dup.config.windowMs, "")
                  /\ k \in DOMAIN store'
                  /\ StoredCounter(store') = [count |-> 1, firstSeen |-> now]
             /\ InWindow =>
                  /\ count \in 1..max
                  /\ k \in DOMAIN store
                  /\ count < max =>
                       /\ dup'.result =
                            DuplicateResult(FALSE, count + 1, dup.config.windowMs, "")
                       /\ k \in DOMAIN store'
                       /\ StoredCounter(store') =
                            [count |-> count + 1, firstSeen |-> dup.existing.firstSeen]
                  /\ count = max =>
                       /\ dup'.result.isDuplicate
                       /\ dup'.result.reason = "rate_limit"
                       /\ dup'.result.submissionCount = max
                       /\ k \in DOMAIN store'
                       /\ StoredCounter(store') = StoredCounter(store)
                       /\ StoredCounter(store') =
                            [count |-> max, firstSeen |-> dup.existing.firstSeen]]_vars

\* the third call for a submission allowed twice is blocked: the counter
\* still holds count 2 and has been read three times since it was stored
C30_Witness ==
    /\ dup.config.maxSubmissions = 2
    /\ dup.phase = "idle"
    /\ dup.result.isDuplicate
    /\ dup.result.reason = "rate_limit"
    /\ dup.result.submissionCount = 2
    /\ SanitizedOf(dup.key) \in DOMAIN store
    /\ StoredCounter(store).count = 2
    /\ totalHits >= 2

\* C31: a call of checkDuplicate that finds the counter entry absent from the
\* cache, or finds it with now - firstSeen >= windowMs, is allowed
\* (isDuplicate = false, submissionCount = 1) and starts a new window: the
\* stored count is 1 and firstSeen is the time of this call
C31_NewWindow ==
    [][(checkDuplicateDecide /\ ~InWindow) =>
         /\ ~dup'.result.isDuplicate
         /\ dup'.result.submissionCount = 1
         /\ dup'.result.reason = ""
         /\ SanitizedOf(dup.key) \in DOMAIN store'
         /\ StoredCounter(store') = [count |-> 1, firstSeen |-> now]
         /\ store'[SanitizedOf(dup.key)].timestamp = now]_vars

\* the window of a submission that had reached its limit is over while its
\* counter is still cached, and the next call has started a new one
C31_Witness ==
    /\ dup.phase = "idle"
    /\ dup.existing.found
    /\ dup.existing.count = dup.config.maxSubmissions
    /\ now - dup.existing.firstSeen >= dup.config.windowMs
    /\ ~dup.result.isDuplicate
    /\ dup.result.submissionCount = 1
    /\ SanitizedOf(dup.key) \in DOMAIN store
    /\ StoredCounter(store) = [count |-> 1, firstSeen |-> now]

\* the cache call that checkDuplicate made in this step raised
CacheCallRaised ==
    \/ /\ dup.phase = "idle"
       /\ dup.config.enabled
       /\ last'.op = "get"
       /\ last'.ret = "throw"
       /\ dup'.key \in DuplicateKeys
    \/ /\ dup.phase = "looked"
       /\ last'.op = "set"
       /\ last'.ret = "throw"

\* C32: checkDuplicate fails open: when a cache read or write inside it
\* raises, the call neither rejects nor blocks; it returns isDuplicate =
\* false with reason 'error' and submissionCount 0
C32_FailsOpen ==
    [][CacheCallRaised =>
         /\ dup'.phase = "idle"
         /\ ~dup'.result.isDuplicate
         /\ dup'.result.reason = "error"
         /\ dup'.result.submissionCount = 0]_vars

\* the set() of a detector whose window exceeds the longest accepted ttl
\* has thrown, and the call has returned the fail-open result with nothing
\* stored under its key
C32_Witness ==
    /\ dup.config.windowMs > MaxTtlMs
    /\ dup.phase = "idle"
    /\ last.op = "set"
    /\ last.ret = "throw"
    /\ last.err = ErrTtlTooLarge
    /\ dup.result = FailOpen
    /\ SanitizedOf(dup.key) \notin DOMAIN store

\* the clients in the idle stack
IdleClients == {db.pool[i] : i \in 1..Len(db.pool)}

\* the pool is configured and close() has not been called
PoolOpen == db.configured /\ ~db.closed

\* C33: for a configured pool between construction and close(): active +
\* idle = maxConnections after every getConnection and releaseConnection;
\* no connection is active and idle at once; releaseConnection of a
\* connection that is not active changes nothing; and withDbConnection
\* releases its connection whether the operation resolves or rejects
C33_PoolAccounting ==
    /\ [](PoolOpen =>
            /\ Cardinality(db.activeConnections) + Len(db.pool) = db.maxConnections
            /\ Cardinality(IdleClients) = Len(db.pool)
            /\ db.activeConnections \cap IdleClients = {})
    /\ [][\A c \in DbCallers :
            /\ \A connection \in {db.calls[c].conn, ForeignClient} :
                 (/\ PoolOpen
                  /\ connection \notin db.activeConnections
                  /\ releaseConnection(c, connection, "", FALSE))
                 => /\ db'.pool = db.pool
                    /\ db'.activeConnections = db.activeConnections
            /\ (PoolOpen /\ (OperationResolves(c) \/ OperationRejects(c)))
                 => /\ db.calls[c].conn \notin db'.activeConnections
                    /\ db.calls[c].conn \in {db'.pool[i] : i \in 1..Len(db'.pool)}
                    /\ db'.calls[c].phase = "none"]_vars

\* on a pool of two connections one caller holds a connection, the
\* operation of another caller's withDbConnection has rejected and its
\* connection is idle again
C33_Witness ==
    /\ PoolOpen
    /\ db.maxConnections = 2
    /\ \E c1, c2 \in DbCallers :
          /\ db.calls[c1].phase = "holding"
          /\ ~db.calls[c1].with
          /\ db.calls[c1].conn \in db.activeConnections
          /\ db.calls[c2].phase = "none"
          /\ db.calls[c2].released
          /\ db.calls[c2].err = ErrOperation
          /\ db.calls[c2].conn \in IdleClients

\* the call of getConnection by c has completed: it returned a connection
\* or threw, or c has made no call
Completed(c) == db.calls[c].phase \in {"none", "holding", "failed"}

\* a waiting call ends by obtaining a connection or by rejecting with
\* 'Connection timeout'; in particular a woken waiter does not fail with
\* 'Unable to acquire database connection from pool'
WaiterOutcome ==
    [][\A c \in DbCallers :
         ResumeGetConnection(c) =>
           \/ /\ db.calls[c].phase = "woken"
              /\ db'.calls[c].phase = "holding"
              /\ db'.calls[c].conn \in db'.activeConnections
              /\ db'.calls[c].conn \notin {db'.pool[i] : i \in 1..Len(db'.pool)}
           \/ /\ db.calls[c].phase = "timedout"
              /\ db'.calls[c].phase = "failed"
              /\ db'.calls[c].err = ErrConnectionTimeout]_vars

\* no timer of waitForConnection is scheduled for a completed call
NoTimerLeft ==
    [](\A c \in DbCallers : Completed(c) => ~db.calls[c].timeout /\ ~db.calls[c].interval)

\* C38: a getConnection call that finds the pool exhausted ends in exactly
\* one of two ways: it obtains a connection after one is released, or it
\* rejects with 'Connection timeout'; with several waiters and concurrent
\* new callers a woken waiter never fails with 'Unable to acquire database
\* connection from pool'; and no timer created by the call stays scheduled
\* after the call has completed
C38_ExhaustedPool == WaiterOutcome /\ NoTimerLeft

\* the store holds exactly one entry and its own size exceeds the cap
OneOversizedEntry ==
    /\ Cardinality(DOMAIN store) = 1
    /\ \A k \in DOMAIN store : store[k].sizeBytes > Cap

\* in every state memoryUsageBytes is within the cap or the store holds one
\* oversized entry
BoundOrOversized == memoryUsageBytes <= Cap \/ OneOversizedEntry

\* a completed set of a key that is not the stored one, starting with one
\* oversized entry in the store
SetNextToOversized(in) ==
    /\ OneOversizedEntry
    /\ SanitizedOf(in[1]) \notin DOMAIN store
    /\ Set(in[1], in[2], in[3])
    /\ last'.ret = "void"

\* C34 as stated: after every completed set memoryUsageBytes <= cap, except
\* in states where the store holds exactly one entry whose own sizeBytes
\* exceeds the cap; the next set of any other entry removes that oversized
\* entry and restores the bound
C34_Original ==
    /\ [](BoundOrOversized)
    /\ [][\A in \in HealthInputs :
            SetNextToOversized(in) =>
              /\ DOMAIN store \cap DOMAIN store' = {}
              /\ memoryUsageBytes' <= Cap]_vars

\* C34, amended: as stated, but the set of the other entry restores the
\* bound only when the new entry is not itself larger than the cap;
\* otherwise the new entry is the one oversized entry of the store
C34_OversizedEntryIsAlone ==
    /\ [](BoundOrOversized)
    /\ [][\A in \in HealthInputs :
            SetNextToOversized(in) =>
              /\ DOMAIN store \cap DOMAIN store' = {}
              /\ DOMAIN store' = {SanitizedOf(in[1])}
              /\ IF store'[SanitizedOf(in[1])].sizeBytes <= Cap
                 THEN memoryUsageBytes' <= Cap
                 ELSE OneOversizedEntry']_vars

\* an oversized entry is alone in the store after a completed set that
\* evicted what was stored before it: memoryUsageBytes exceeds the cap and
\* equals the size of that entry
C34_Witness ==
    /\ last.op = "set"
    /\ last.ret = "void"
    /\ last.evicted >= 1
    /\ OneOversizedEntry
    /\ memoryUsageBytes > Cap
    /\ \A k \in DOMAIN store : memoryUsageBytes = store[k].sizeBytes

\* the stored keys whose entry is expired, and those whose entry is live
ExpiredStored == {k \in DOMAIN store : Expired(k)}
LiveStored == {k \in DOMAIN store : ~Expired(k)}

\* the part of the store under the given keys
Restrict(st, keys) == [k \in keys |-> st[k]]

\* C35: capacity eviction follows the LRU order only and never consults the
\* ttl: the entries a set evicts are the heads of the LRU order, one after
\* the other, also when the head is live and other entries of the store are
\* already expired; expired entries that were neither read nor swept keep
\* counting toward store.size and memoryUsageBytes
C35_EvictionIgnoresTtl ==
    /\ [][\A in \in TtlInputs :
            Set(in[1], in[2], in[3]) =>
              LET n == last'.evicted
                  heads == {accessOrder[i].key : i \in 1..n}
                  written == SanitizedOf(in[1])
              IN  /\ n <= Len(accessOrder)
                  /\ (DOMAIN store) \ (DOMAIN store') \subseteq heads
                  /\ \A k \in heads \ {written} : k \notin DOMAIN store'
                  /\ (written \in heads /\ last'.ret = "void") =>
                        /\ store'[written].timestamp = now
                        /\ store'[written].hitCount = 0
                  /\ (n = 0 /\ Len(accessOrder) > 0 /\ last'.ret = "void") =>
                        accessOrder[1].key \in DOMAIN store']_vars
    /\ [](/\ getStats.size = Cardinality(LiveStored) + Cardinality(ExpiredStored)
          /\ getStats.expired = Cardinality(ExpiredStored)
          /\ memoryUsageBytes = TotalSize(Restrict(store, LiveStored))
                                  + TotalSize(Restrict(store, ExpiredStored)))

\* a set has evicted one of the two entries of a full store and the entry
\* left next to the one it wrote is expired: the expired entry was passed
\* over and still counts in size and memory
C35_Witness ==
    /\ last.op = "set"
    /\ last.ret = "void"
    /\ last.evicted = 1
    /\ Cardinality(DOMAIN store) = 2
    /\ Cardinality(ExpiredStored) = 1
    /\ getStats.size = 2
    /\ \E k \in LiveStored : store[k].timestamp = now /\ store[k].hitCount = 0
    /\ memoryUsageBytes = TotalSize(store)
    /\ accessOrder[1].key \in ExpiredStored

\* another caller is awaiting its fetcher for the same sanitized key
Overlaps(c, key) ==
    \E d \in Callers \ {c} :
        /\ pending[d].phase = "fetching"
        /\ SanitizedOf(pending[d].key) = SanitizedOf(key)

\* the fetchers a caller's call has invoked: one when its lookup gave null,
\* none when it returned a cached value or the lookup threw
FetcherCallsMatchMisses ==
    \A c \in Callers :
        /\ pending[c].phase = "fetching" => pending[c].fetcherCalls = 1
        /\ pending[c].phase = "resolved" =>
              pending[c].fetcherCalls = IF pending[c].cached THEN 0 ELSE 1
        /\ pending[c].phase = "none" => pending[c].fetcherCalls = 0

\* C36: withCache has no single-flight guarantee: of the calls on one key
\* that overlap in time, every call whose lookup gives null invokes its own
\* fetcher, so that the fetcher invocations are as many as the callers that
\* missed; and each call whose fetcher resolves stores its result over what
\* the others stored, so that after all have completed the cache holds the
\* result of the call that executed its set last
C36_NoSingleFlight ==
    /\ [][/\ \A c \in Callers, key \in WithCacheKeys, ttl \in WithCacheTtls :
               (withCache(c, key, ttl) /\ Overlaps(c, key) /\ last'.ret = "null") =>
                 /\ pending'[c].phase = "fetching"
                 /\ pending'[c].fetcherCalls = 1
                 /\ \A d \in Callers \ {c} : pending'[d] = pending[d]
          /\ \A c \in Callers, value \in FetchedValues :
               (FetcherResolves(c, value) /\ last'.ret = "void") =>
                 /\ store'[SanitizedOf(pending[c].key)].data = value.id
                 /\ store'[SanitizedOf(pending[c].key)].timestamp = now
                 /\ pending'[c].data = value.id
                 /\ \A d \in Callers \ {c} : pending'[d] = pending[d]]_vars
    /\ []FetcherCallsMatchMisses

\* both callers have missed on the same key and each awaits a fetcher of
\* its own
C36_Witness ==
    /\ pending["c1"].phase = "fetching"
    /\ pending["c2"].phase = "fetching"
    /\ pending["c1"].key = pending["c2"].key
    /\ pending["c1"].fetcherCalls = 1
    /\ pending["c2"].fetcherCalls = 1
    /\ totalAccesses = 2
    /\ totalHits = 0

\* the sanitized keys under which the explored calls store entries
StoredKeys == {SanitizedOf(key) : key \in ValidRawKeys}

\* the entry under k is stored and its age exceeds its ttl
StoredExpired(k) == k \in DOMAIN store /\ Expired(k)

\* C37: on an instance constructed with a sweep interval > 0 and never
\* destroyed, whose timer keeps firing, every entry that becomes expired is
\* eventually removed from the store, by a sweep cycle at the latest; and a
\* sweep never removes an entry whose age is at most its ttl
C37_ExpiredEventuallyRemoved ==
    /\ \A k \in StoredKeys : StoredExpired(k) ~> ~StoredExpired(k)
    /\ [][(last'.op = "sweep" /\ TimerStep) =>
            \A k \in DOMAIN store :
                Age(k) <= store[k].ttl => (k \in DOMAIN store' /\ store'[k] = store[k])]_vars

\* a sweep cycle has removed an expired entry and left an entry whose age
\* equals its ttl
C37_Witness ==
    /\ config.cleanupInterval > 0
    /\ ~isDestroyed
    /\ last.op = "sweep"
    /\ last.metric = "expired"
    /\ \E k \in DOMAIN store : Age(k) = store[k].ttl /\ Age(k) > 0
    /\ \A k \in StoredKeys : ~StoredExpired(k)

====
